---- MODULE Spec2Model ----
(***************************************************************************)
(* Agent gateway protocol layer of lector-mediciones-backend.              *)
(*                                                                         *)
(*   sseController.js            (src/unnamed/part_002)                    *)
(*   testRegistradorController   (src/unnamed/part_000, lines 300-678)     *)
(*   agenteApiController.js      (src/unnamed/part_007)                    *)
(*   adminAgentesController.js   (src/src/controllers/)                    *)
(*   agentesController.js        (src/unnamed/part_003, rotarClave)        *)
(*   authAgente.js               (src/src/middleware/rateLimiter.js 66-142)*)
(*                                                                         *)
(* Every async handler is cut at its awaits: one action per synchronous    *)
(* segment, the datastore operation an await waits for taking effect in    *)
(* the action that follows it.  Handlers run in the slots of `hilos`.      *)
(***************************************************************************)
EXTENDS Integers, Sequences, FiniteSets, TLC

\* ----------------------------------------------------------------- bounds
\* Clock horizon, in ticks of TickMs.
MaxTicks == 2
\* Rows the table test_registrador may hold.
MaxTests == 2
\* SSE connections opened over a run.
MaxCanales == 2

\* Clock horizon of the credential specifications, in ticks of TickAuthMs.
MaxTicksAuth == 3
\* Key rotations started over a run.
MaxRotaciones == 3
\* Issued tokens whose later use is followed.
MaxTokens == 2

\* Clock horizon of the rate-limiter specification, in ticks of TickMs.
MaxTicksRL == 5
\* Single milliseconds the rate-limiter clock may add after a whole tick.
MaxMilis == 1
\* Requests a key may make beyond the ceiling of its limiter in one window.
MaxExceso == 2
\* Legacy socket path: test requests made, responses one request may draw,
\* agents connected by socket.
MaxSolicitudes == 2
MaxRespuestas == 2
MaxSockets == 2

\* One tick of the model's clock, in milliseconds (Date.now() is in ms).
TickMs == 30 * 1000
\* Date.now() at the start of a run: any positive instant.
Epoch == TickMs
\* One tick of the clock of the credential specifications: twelve hours.
TickAuthMs == 12 * 60 * 60 * 1000

\* ------------------------------------------------------ program constants
COOLDOWN_MS == 60000
TIMEOUT_SEGUNDOS == 30
\* registrarTestRealizado prunes once the map holds more than this many keys.
COOLDOWN_MAX_ENTRADAS == 100
\* rateLimiter.js: the window, and the ceilings of the three limiters.
VENTANA_MS == 60 * 1000
MAX_AUTH == 10
MAX_AGENTE == 120
MAX_PING == 30
\* veinticuatroHoras of autenticar / verificarClaveAgente, ms.
veinticuatroHoras == 24 * 60 * 60 * 1000
\* TOKEN_EXPIRY = '24h', in the seconds jsonwebtoken counts in.
TOKEN_EXPIRY == 24 * 60 * 60

\* ------------------------------------------------------------------ inputs
AgenteIds == {"a1", "a2"}
\* An id that names no row of the table agentes.
Desconocido == "ax"
TodosIds == AgenteIds \cup {Desconocido}
Ips == {"10.0.0.5", "10.0.0.6"}
Puertos == {502}
Claves == Ips \X Puertos
HiloIds == {"h1", "h2"}
ValoresPosibles == {"v1", "v2"}
ErroresPosibles == {"e1"}

\* req.ip of the callers of the rate-limited routes.
IpsRL == {"10.0.0.5", "10.0.0.6"}
RUTA_PING == "/api/agente/ping"
RUTA_AUTH == "/api/agente/auth"
RUTA_HEARTBEAT == "/api/agente/heartbeat"
\* The routes that carry rateLimitAgente.
RutasLimitadas == {"/api/agente/heartbeat", "/api/agente/config",
                   "/api/agente/lecturas", "/api/agente/log"}
\* The routes behind verificarTokenAgente that carry no limiter.
RutasSinLimite == {"/api/agente/vincular", "/api/agente/eventos",
                   "/api/agente/tests/:testId/resultado"}
RutasProtegidas == RutasLimitadas \cup RutasSinLimite
\* The keys `${ip}:${ruta}` of the map almacen.
ClavesRL == IpsRL \X ({RUTA_PING, RUTA_AUTH} \cup RutasLimitadas)
RotIds == {"r1", "r2"}
PetIds == {"p1", "p2"}
\* w1 is linked to agent a1 (workspaces.agente_id); w0 has no agent.
Workspaces == {"w1", "w0"}
\* Secrets nobody was ever given.
ClavesAjenas == {99}

NULL == "null"
MSG_DESCONECTADO == "El agente se desconecto antes de recibir el comando"
MSG_TIMEOUT == "El agente no respondio a tiempo"

VARIABLES
  now,                \* Date.now(), ms
  test_registrador,   \* table test_registrador: sequence of rows, id = index
  agentesConectados,  \* Map agenteId -> channel (0: no entry)
  canales,            \* the SSE responses (res) opened so far
  cooldownTests,      \* Map "ip:puerto" -> timestamp (0: no entry)
  hilos,              \* the handler invocations in flight, with their locals
  revelados,          \* test ids the server has sent out (push or response)
  salida,             \* the response the last step sent, if it sent one
  permitidos,         \* history: per target, when a request last passed the gate
  agentes,            \* table agentes: the credential columns of each row
  rotadores,          \* the rotarClaveAgente / rotarClave calls in flight
  siguienteClave,     \* the next value crypto.randomBytes yields (fresh each time)
  historial,          \* history: per agent, the secrets its clave_hash has held
  tokens,             \* issued tokens that later requests present
  peticiones,         \* requests inside verificarTokenAgente and behind it
  almacen,            \* rateLimiter.js: Map "ip:ruta" -> {count, windowStart}
  trasRechazo,        \* history: per key, whether the window before the current
                      \* one ended with the key over its ceiling
  sinBarrido,         \* history: the map almacen as the same requests leave it
                      \* when the sweep never runs
  trasBarrido,        \* history: per key, whether its last request found its
                      \* entry deleted by the sweep
  agentesSocket,      \* index.js: size of the Map socket.id -> agent
  pendingCallbacks,   \* index.js: the requestIds the Map pendingCallbacks holds
  timeouts,           \* per requestId, the setTimeout of enviarTestConexion
  promesas,           \* per requestId, the promise enviarTestConexion returned
  respuestas          \* per requestId, the modbus:test:respuesta events received

varsTest == <<now, test_registrador, agentesConectados, canales, cooldownTests,
              hilos, revelados, salida, permitidos>>
varsSesiones == <<test_registrador, agentesConectados, canales, cooldownTests,
                  hilos, revelados, permitidos>>
varsAuth == <<agentes, rotadores, siguienteClave, historial, tokens, peticiones>>
varsLimite == <<almacen, trasRechazo, sinBarrido, trasBarrido>>
varsSocket == <<agentesSocket, pendingCallbacks, timeouts, promesas, respuestas>>
vars == <<varsTest, varsAuth, varsLimite, varsSocket>>

\* ---------------------------------------------------------------- helpers
CeilDiv(a, b) == (a + b - 1) \div b

Clave(ip, puerto) == <<ip, puerto>>

\* No bearer token (no Authorization header).
SinToken == [agenteId |-> NULL, tipo |-> NULL, iat |-> 0, firma |-> NULL]

SinSalida ==
  [op |-> "nada", status |-> 0, testId |-> 0, estado |-> NULL, valores |-> NULL,
   error_mensaje |-> NULL, esperarSegundos |-> 0,
   agenteId |-> NULL, nuevaClave |-> 0, token |-> SinToken]

HiloLibre ==
  [op |-> "idle", pc |-> "idle", agenteId |-> NULL, testId |-> 0,
   ip |-> NULL, puerto |-> 0, enviado |-> FALSE,
   exito |-> FALSE, valores |-> NULL, error_mensaje |-> NULL,
   completado_at |-> 0, canal |-> 0]

Libre(h) == hilos[h].pc = "idle"

Terminales == {"completado", "error", "timeout"}
NoTerminales == {"pendiente", "enviado"}

\* ------------------------------------------------------- sseController.js
\* conectarSSE keeping the entry an agent id already has.
ConectarSSE_sinReemplazo(a) ==
  /\ Len(canales) < MaxCanales
  /\ canales' = Append(canales,
                  [agente |-> a, estado |-> "abierto", writableEnded |-> FALSE,
                   intervalo |-> TRUE, latidos |-> 0])
  /\ agentesConectados' =
       IF agentesConectados[a] # 0 THEN agentesConectados
       ELSE [agentesConectados EXCEPT ![a] = Len(canales) + 1]
  /\ salida' = SinSalida
  /\ UNCHANGED <<now, test_registrador, cooldownTests, hilos, revelados, permitidos,
                 agentes, rotadores, siguienteClave, historial, tokens, peticiones,
                 almacen, trasRechazo, sinBarrido, trasBarrido>>
  /\ UNCHANGED varsSocket

\* agenteConectado answering yes for every agent.
agenteConectado_siempre(agenteId) == TRUE

agenteConectado(agenteId) ==
  LET conexion == agentesConectados[agenteId]
  IN  conexion # 0 /\ ~canales[conexion].writableEnded

\* verificarCooldown holding a target for two cool-down periods.
verificarCooldown_doble(ip, puerto) ==
  LET ultimoTest == cooldownTests[Clave(ip, puerto)]
      tiempoTranscurrido == now - ultimoTest
  IN  IF ultimoTest = 0
        THEN [permitido |-> TRUE, esperarSegundos |-> 0]
      ELSE IF tiempoTranscurrido >= COOLDOWN_MS * 2
        THEN [permitido |-> TRUE, esperarSegundos |-> 0]
      ELSE [permitido |-> FALSE,
            esperarSegundos |-> CeilDiv(COOLDOWN_MS * 2 - tiempoTranscurrido, 1000)]

\* verificarCooldown comparing with > where the code has >=.
verificarCooldown_gt(ip, puerto) ==
  LET ultimoTest == cooldownTests[Clave(ip, puerto)]
      tiempoTranscurrido == now - ultimoTest
  IN  IF ultimoTest = 0
        THEN [permitido |-> TRUE, esperarSegundos |-> 0]
      ELSE IF tiempoTranscurrido > COOLDOWN_MS
        THEN [permitido |-> TRUE, esperarSegundos |-> 0]
      ELSE [permitido |-> FALSE,
            esperarSegundos |-> CeilDiv(COOLDOWN_MS - tiempoTranscurrido, 1000)]

verificarCooldown(ip, puerto) ==
  LET ultimoTest == cooldownTests[Clave(ip, puerto)]
      tiempoTranscurrido == now - ultimoTest
  IN  IF ultimoTest = 0
        THEN [permitido |-> TRUE, esperarSegundos |-> 0]
      ELSE IF tiempoTranscurrido >= COOLDOWN_MS
        THEN [permitido |-> TRUE, esperarSegundos |-> 0]
      ELSE [permitido |-> FALSE,
            esperarSegundos |-> CeilDiv(COOLDOWN_MS - tiempoTranscurrido, 1000)]

\* registrarTestRealizado recording the instant for every target.
registrarTestRealizado_todos(ip, puerto) == [k \in Claves |-> now]

\* registrarTestRealizado recording nothing.
registrarTestRealizado_nada(ip, puerto) == cooldownTests

registrarTestRealizado(ip, puerto) ==
  LET puesto == [cooldownTests EXCEPT ![Clave(ip, puerto)] = now]
      size == Cardinality({k \in Claves : puesto[k] # 0})
  IN  IF size > COOLDOWN_MAX_ENTRADAS
        THEN [k \in Claves |->
                IF puesto[k] # 0 /\ now - puesto[k] > COOLDOWN_MS * 2
                  THEN 0 ELSE puesto[k]]
        ELSE puesto

\* enviarEventoAgente: `lanza` says whether res.write throws, which only a
\* response whose transport is gone can do.  The result is whether the event
\* was written, on which channel, and the registry afterwards.
enviarEventoAgente(agenteId, lanza) ==
  LET conexion == agentesConectados[agenteId]
  IN  IF conexion = 0 \/ canales[conexion].writableEnded
        THEN [enviado |-> FALSE, registro |-> agentesConectados, canal |-> 0]
      ELSE IF lanza /\ canales[conexion].estado = "roto"
        THEN [enviado |-> FALSE,
              registro |-> [agentesConectados EXCEPT ![agenteId] = 0],
              canal |-> 0]
      ELSE [enviado |-> TRUE, registro |-> agentesConectados, canal |-> conexion]

\* A connection whose 'close' handler has run: nothing refers to it any more
\* (the handler cleared its interval and the registry entry of its agent).
CanalCerrado ==
  [agente |-> NULL, estado |-> "cerrado", writableEnded |-> FALSE,
   intervalo |-> FALSE, latidos |-> 0]

\* GET /api/agente/eventos
ConectarSSE(a) ==
  /\ Len(canales) < MaxCanales
  /\ canales' = Append(canales,
                  [agente |-> a, estado |-> "abierto", writableEnded |-> FALSE,
                   intervalo |-> TRUE, latidos |-> 0])
  /\ agentesConectados' = [agentesConectados EXCEPT ![a] = Len(canales) + 1]
  /\ salida' = SinSalida
  /\ UNCHANGED <<now, test_registrador, cooldownTests, hilos, revelados, permitidos>>
  /\ UNCHANGED varsAuth
  /\ UNCHANGED varsLimite
  /\ UNCHANGED varsSocket

\* The transport of a connection goes away; the events follow.
TransporteCae(c) ==
  /\ canales[c].estado = "abierto"
  /\ canales' = [canales EXCEPT ![c].estado = "roto"]
  /\ salida' = SinSalida
  /\ UNCHANGED <<now, test_registrador, agentesConectados, cooldownTests, hilos,
                 revelados, permitidos>>
  /\ UNCHANGED varsAuth
  /\ UNCHANGED varsLimite
  /\ UNCHANGED varsSocket

\* The 'close' handler failing the outstanding sessions of its agent.
ReqClose_fallaSesiones(c) ==
  /\ canales[c].estado = "roto"
  /\ canales' = [canales EXCEPT ![c] = CanalCerrado]
  /\ agentesConectados' = [agentesConectados EXCEPT ![canales[c].agente] = 0]
  /\ test_registrador' =
       [t \in DOMAIN test_registrador |->
          IF test_registrador[t].agente_id = canales[c].agente
             /\ test_registrador[t].estado \in NoTerminales
            THEN [test_registrador[t] EXCEPT !.estado = "error"]
            ELSE test_registrador[t]]
  /\ salida' = SinSalida
  /\ UNCHANGED <<now, cooldownTests, hilos, revelados, permitidos>>
  /\ UNCHANGED varsAuth
  /\ UNCHANGED varsLimite
  /\ UNCHANGED varsSocket

\* The 'close' handler leaving the registry as it is.
ReqClose_sinBorrar(c) ==
  /\ canales[c].estado = "roto"
  /\ canales' = [canales EXCEPT ![c] = CanalCerrado]
  /\ salida' = SinSalida
  /\ UNCHANGED <<now, test_registrador, agentesConectados, cooldownTests, hilos,
                 revelados, permitidos>>
  /\ UNCHANGED varsAuth
  /\ UNCHANGED varsLimite
  /\ UNCHANGED varsSocket

\* req.on('close')
ReqClose(c) ==
  /\ canales[c].estado = "roto"
  /\ canales' = [canales EXCEPT ![c] = CanalCerrado]
  /\ agentesConectados' = [agentesConectados EXCEPT ![canales[c].agente] = 0]
  /\ salida' = SinSalida
  /\ UNCHANGED <<now, test_registrador, cooldownTests, hilos, revelados, permitidos>>
  /\ UNCHANGED varsAuth
  /\ UNCHANGED varsLimite
  /\ UNCHANGED varsSocket

\* req.on('error')
ReqError(c) ==
  /\ canales[c].estado = "roto"
  /\ canales' = [canales EXCEPT ![c].intervalo = FALSE]
  /\ agentesConectados' = [agentesConectados EXCEPT ![canales[c].agente] = 0]
  /\ salida' = SinSalida
  /\ UNCHANGED <<now, test_registrador, cooldownTests, hilos, revelados, permitidos>>
  /\ UNCHANGED varsAuth
  /\ UNCHANGED varsLimite
  /\ UNCHANGED varsSocket

\* The heartbeat timer writing only on the channel the registry holds.
HeartbeatSSE_soloRegistrado(c) ==
  /\ c \in DOMAIN canales
  /\ canales[c].intervalo
  /\ ~canales[c].writableEnded
  /\ agentesConectados[canales[c].agente] = c
  /\ canales' = [canales EXCEPT ![c].latidos = (@ + 1) % 2]
  /\ salida' = SinSalida
  /\ UNCHANGED <<now, test_registrador, agentesConectados, cooldownTests, hilos,
                 revelados, permitidos>>
  /\ UNCHANGED varsAuth
  /\ UNCHANGED varsLimite
  /\ UNCHANGED varsSocket

\* The setInterval callback of a connection fires: unless the response has
\* ended, a heartbeat event is written on it (latidos counts them, mod 2).
\* A callback that finds the response ended does nothing.
HeartbeatSSE(c) ==
  /\ c \in DOMAIN canales
  /\ canales[c].intervalo
  /\ ~canales[c].writableEnded
  /\ canales' = [canales EXCEPT ![c].latidos = (@ + 1) % 2]
  /\ salida' = SinSalida
  /\ UNCHANGED <<now, test_registrador, agentesConectados, cooldownTests, hilos,
                 revelados, permitidos>>
  /\ UNCHANGED varsAuth
  /\ UNCHANGED varsLimite
  /\ UNCHANGED varsSocket

\* The HTTP layer ends a response: res.writableEnded becomes true.
ResEnd(c) ==
  /\ canales[c].estado = "abierto"
  /\ ~canales[c].writableEnded
  /\ canales' = [canales EXCEPT ![c].writableEnded = TRUE]
  /\ salida' = SinSalida
  /\ UNCHANGED <<now, test_registrador, agentesConectados, cooldownTests, hilos,
                 revelados, permitidos>>
  /\ UNCHANGED varsAuth
  /\ UNCHANGED varsLimite
  /\ UNCHANGED varsSocket

\* ------------------------------------------- testRegistradorController.js
\* Rows a started solicitarTest may still insert.
PorInsertar == Cardinality({h \in HiloIds : hilos[h].pc = "insertar"})

\* solicitarTest / solicitarTestCoils up to the insert: the permission and
\* agent look-ups, then the synchronous segment agenteConectado,
\* verificarCooldown, registrarTestRealizado.  (The 400 of the handler cannot
\* happen: validar(esquemaSolicitarTest) runs before it.)
SolicitarInicio(h, esSuper, agenteId, ip, puerto) ==
  LET cooldown == verificarCooldown(ip, puerto)
      rechazo(st, esp) ==
        [SinSalida EXCEPT !.op = "solicitar", !.status = st,
                          !.esperarSegundos = esp, !.agenteId = agenteId]
  IN
  /\ Libre(h)
  /\ Len(test_registrador) + PorInsertar < MaxTests
  /\ IF ~esSuper THEN
       /\ salida' = rechazo(403, 0)
       /\ UNCHANGED <<cooldownTests, permitidos, hilos>>
     ELSE IF agenteId \notin AgenteIds THEN
       /\ salida' = rechazo(404, 0)
       /\ UNCHANGED <<cooldownTests, permitidos, hilos>>
     ELSE IF ~agenteConectado(agenteId) THEN
       /\ salida' = rechazo(503, 0)
       /\ UNCHANGED <<cooldownTests, permitidos, hilos>>
     ELSE IF ~cooldown.permitido THEN
       /\ salida' = rechazo(429, cooldown.esperarSegundos)
       /\ UNCHANGED <<cooldownTests, permitidos, hilos>>
     ELSE
       /\ cooldownTests' = registrarTestRealizado(ip, puerto)
       /\ permitidos' = [permitidos EXCEPT ![Clave(ip, puerto)] = now]
       /\ hilos' = [hilos EXCEPT ![h] =
            [HiloLibre EXCEPT !.op = "solicitar", !.pc = "insertar",
                              !.agenteId = agenteId, !.ip = ip, !.puerto = puerto]]
       /\ salida' = SinSalida
  /\ UNCHANGED <<now, test_registrador, agentesConectados, canales, revelados>>
  /\ UNCHANGED varsAuth
  /\ UNCHANGED varsLimite
  /\ UNCHANGED varsSocket

\* POST /api/agentes/:agenteId/test-registrador
SolicitarTest(h, esSuper, agenteId, ip, puerto) ==
  SolicitarInicio(h, esSuper, agenteId, ip, puerto)

\* POST /api/agentes/:agenteId/test-coils: the same steps as solicitarTest;
\* the name of the event pushed and the column tipo_lectura, which nothing
\* reads back, are all that differ.
SolicitarTestCoils(h, esSuper, agenteId, ip, puerto) ==
  SolicitarInicio(h, esSuper, agenteId, ip, puerto)

\* The insert of the 'pendiente' row takes effect, or fails (errorCrear).
SolicitarInsertar(h, falla) ==
  /\ hilos[h].op = "solicitar" /\ hilos[h].pc = "insertar"
  /\ IF falla THEN
       /\ hilos' = [hilos EXCEPT ![h] = HiloLibre]
       /\ salida' = [SinSalida EXCEPT !.op = "solicitar", !.status = 500]
       /\ UNCHANGED test_registrador
     ELSE
       /\ test_registrador' = Append(test_registrador,
            [id |-> Len(test_registrador) + 1, agente_id |-> hilos[h].agenteId,
             ip |-> hilos[h].ip, puerto |-> hilos[h].puerto,
             estado |-> "pendiente", valores |-> NULL, error_mensaje |-> NULL,
             created_at |-> now, completado_at |-> 0])
       /\ hilos' = [hilos EXCEPT ![h].pc = "enviar",
                                 ![h].testId = Len(test_registrador) + 1]
       /\ salida' = SinSalida
  /\ UNCHANGED <<now, agentesConectados, canales, cooldownTests, revelados, permitidos>>
  /\ UNCHANGED varsAuth
  /\ UNCHANGED varsLimite
  /\ UNCHANGED varsSocket

\* After the insert: enviarEventoAgente, then the update is issued.  An event
\* written to a live transport reaches the agent, which then knows the id.
\* The slot keeps the response the event was written to (0: none).
SolicitarEnviar(h, lanza) ==
  LET r == enviarEventoAgente(hilos[h].agenteId, lanza)
      llega == r.enviado /\ canales[r.canal].estado = "abierto"
  IN
  /\ hilos[h].op = "solicitar" /\ hilos[h].pc = "enviar"
  /\ agentesConectados' = r.registro
  /\ revelados' = IF llega THEN revelados \cup {hilos[h].testId} ELSE revelados
  /\ hilos' = [hilos EXCEPT ![h].pc = "actualizar", ![h].enviado = r.enviado,
                            ![h].canal = r.canal]
  /\ salida' = SinSalida
  /\ UNCHANGED <<now, test_registrador, canales, cooldownTests, permitidos>>
  /\ UNCHANGED varsAuth
  /\ UNCHANGED varsLimite
  /\ UNCHANGED varsSocket

\* The update to 'enviado' or to 'error' takes effect; the response follows.
SolicitarActualizar(h) ==
  LET id == hilos[h].testId
      resp(st) == [SinSalida EXCEPT !.op = "solicitar", !.status = st,
                     !.testId = id]
  IN
  /\ hilos[h].op = "solicitar" /\ hilos[h].pc = "actualizar"
  /\ IF hilos[h].enviado THEN
       /\ test_registrador' = [test_registrador EXCEPT ![id].estado = "enviado"]
       /\ salida' = resp(201)
     ELSE
       /\ test_registrador' = [test_registrador EXCEPT
            ![id].estado = "error",
            ![id].error_mensaje = MSG_DESCONECTADO,
            ![id].completado_at = now]
       /\ salida' = resp(503)
  /\ hilos' = [hilos EXCEPT ![h] = HiloLibre]
  /\ revelados' = revelados \cup {id}
  /\ UNCHANGED <<now, agentesConectados, canales, cooldownTests, permitidos>>
  /\ UNCHANGED varsAuth
  /\ UNCHANGED varsLimite
  /\ UNCHANGED varsSocket

\* The ids a caller of consultarTest can name: those solicitarTest has
\* answered with (201, or 503 with testId).  The ids an agent can name are
\* `revelados`: those pushed to an agent or answered to an operator.
Respondidos ==
  {t \in DOMAIN test_registrador :
     \A h \in HiloIds : ~(hilos[h].op = "solicitar" /\ hilos[h].testId = t)}

\* BuscarTest without the .eq('agente_id', agenteId) filter.
BuscarTest_sinAgente(testId, agenteId) ==
  IF testId \in DOMAIN test_registrador THEN testId ELSE 0

\* select ... .eq('id', testId).eq('agente_id', agenteId).single()
BuscarTest(testId, agenteId) ==
  IF testId \in DOMAIN test_registrador
     /\ test_registrador[testId].agente_id = agenteId
    THEN testId ELSE 0

\* GET /api/agentes/:agenteId/test-registrador/:testId, up to the update.
ConsultarTest(h, esSuper, agenteId, testId) ==
  LET t == BuscarTest(testId, agenteId)
      test == test_registrador[t]
      tiempoEsperandoMs == now - test.created_at
      resp(st) == [SinSalida EXCEPT !.op = "consultar", !.status = st]
  IN
  /\ Libre(h)
  /\ IF ~esSuper THEN
       /\ salida' = resp(403)
       /\ UNCHANGED hilos
     ELSE IF t = 0 THEN
       /\ salida' = resp(404)
       /\ UNCHANGED hilos
     ELSE IF test.estado \in {"pendiente", "enviado"}
             /\ tiempoEsperandoMs > TIMEOUT_SEGUNDOS * 1000 THEN
       /\ hilos' = [hilos EXCEPT ![h] =
            [HiloLibre EXCEPT !.op = "consultar", !.pc = "marcar",
               !.agenteId = agenteId, !.testId = testId,
               !.valores = test.valores]]
       /\ salida' = SinSalida
     ELSE
       /\ salida' = [resp(200) EXCEPT !.testId = testId, !.estado = test.estado,
                       !.valores = test.valores,
                       !.error_mensaje = test.error_mensaje]
       /\ UNCHANGED hilos
  /\ UNCHANGED <<now, test_registrador, agentesConectados, canales, cooldownTests,
                 revelados, permitidos>>
  /\ UNCHANGED varsAuth
  /\ UNCHANGED varsLimite
  /\ UNCHANGED varsSocket

\* The update to 'timeout' (.eq('id', testId)) takes effect; the response is
\* the row as it was read, with estado and error_mensaje replaced.
ConsultarMarcarTimeout(h) ==
  LET id == hilos[h].testId IN
  /\ hilos[h].op = "consultar" /\ hilos[h].pc = "marcar"
  /\ test_registrador' = [test_registrador EXCEPT
       ![id].estado = "timeout",
       ![id].error_mensaje = MSG_TIMEOUT,
       ![id].completado_at = now]
  /\ salida' = [SinSalida EXCEPT !.op = "consultar", !.status = 200,
                  !.testId = id, !.estado = "timeout", !.valores = hilos[h].valores,
                  !.error_mensaje = MSG_TIMEOUT]
  /\ hilos' = [hilos EXCEPT ![h] = HiloLibre]
  /\ UNCHANGED <<now, agentesConectados, canales, cooldownTests, revelados, permitidos>>
  /\ UNCHANGED varsAuth
  /\ UNCHANGED varsLimite
  /\ UNCHANGED varsSocket

\* POST /api/agente/tests/:testId/resultado, up to the update.  agenteId is
\* req.agente.id, the identity verificarTokenAgente attached.
ReportarResultadoTest(h, agenteId, testId, exito, valores, errorMensaje) ==
  LET t == BuscarTest(testId, agenteId)
      test == test_registrador[t]
      resp(st) == [SinSalida EXCEPT !.op = "reportar", !.status = st]
  IN
  /\ Libre(h)
  /\ IF t = 0 THEN
       /\ salida' = resp(404)
       /\ UNCHANGED hilos
     ELSE IF test.estado \notin {"pendiente", "enviado", "ejecutando"} THEN
       /\ salida' = resp(400)
       /\ UNCHANGED hilos
     ELSE
       /\ hilos' = [hilos EXCEPT ![h] =
            [HiloLibre EXCEPT !.op = "reportar", !.pc = "guardar",
               !.agenteId = agenteId, !.testId = testId, !.exito = exito,
               !.valores = IF exito THEN valores ELSE NULL,
               !.error_mensaje = IF exito THEN NULL ELSE errorMensaje,
               !.completado_at = now]]
       /\ salida' = SinSalida
  /\ UNCHANGED <<now, test_registrador, agentesConectados, canales, cooldownTests,
                 revelados, permitidos>>
  /\ UNCHANGED varsAuth
  /\ UNCHANGED varsLimite
  /\ UNCHANGED varsSocket

\* The update with the result (.eq('id', testId)) takes effect, or fails.
ReportarGuardar(h, falla) ==
  LET id == hilos[h].testId
      resp(st) == [SinSalida EXCEPT !.op = "reportar", !.status = st]
  IN
  /\ hilos[h].op = "reportar" /\ hilos[h].pc = "guardar"
  /\ IF falla THEN
       /\ UNCHANGED test_registrador
       /\ salida' = resp(500)
     ELSE
       /\ test_registrador' = [test_registrador EXCEPT
            ![id].estado = IF hilos[h].exito THEN "completado" ELSE "error",
            ![id].valores = hilos[h].valores,
            ![id].error_mensaje = hilos[h].error_mensaje,
            ![id].completado_at = hilos[h].completado_at]
       /\ salida' = resp(200)
  /\ hilos' = [hilos EXCEPT ![h] = HiloLibre]
  /\ UNCHANGED <<now, agentesConectados, canales, cooldownTests, revelados, permitidos>>
  /\ UNCHANGED varsAuth
  /\ UNCHANGED varsLimite
  /\ UNCHANGED varsSocket

\* Time passes.
Tick ==
  /\ now < Epoch + MaxTicks * TickMs
  /\ now' = now + TickMs
  /\ salida' = SinSalida
  /\ UNCHANGED <<test_registrador, agentesConectados, canales, cooldownTests,
                 hilos, revelados, permitidos>>
  /\ UNCHANGED varsAuth
  /\ UNCHANGED varsLimite
  /\ UNCHANGED varsSocket

\* ---------------------------------------------------- stored credentials
\* bcrypt.hash(clave, 10) and bcrypt.compare(clave, hash): a hash is not the
\* secret, and compare accepts exactly the secret the hash was made from.
bcryptHash(clave) == 1000 + clave

bcryptCompare(clave, hash) == hash = bcryptHash(clave)

\* The secrets crearAgente gave a1 and a2.
ClaveInicial == [a \in AgenteIds |-> IF a = "a1" THEN 1 ELSE 2]

\* crypto.randomBytes(32) after the agents were created.
PrimeraClaveNueva == Cardinality(AgenteIds) + 1

\* workspaces.agente_id
WorkspaceAgente == [w \in Workspaces |-> IF w = "w1" THEN "a1" ELSE NULL]

\* A row of agentes that has been deleted.
AgenteBorrado ==
  [existe |-> FALSE, activo |-> FALSE, clave_hash |-> 0,
   clave_anterior_hash |-> 0, clave_rotada_at |-> 0]

RotadorLibre == [pc |-> "idle", agenteId |-> NULL, clave_hash |-> 0]

PeticionLibre == [pc |-> "idle", agenteId |-> NULL, ip |-> NULL, ruta |-> NULL]

\* Rotations started so far: secrets generated, plus calls that have read.
RotacionesIniciadas ==
  (siguienteClave - PrimeraClaveNueva)
    + Cardinality({r \in RotIds : rotadores[r].pc = "actualizar"})

\* The secrets handed out so far.
ClavesEmitidas == 1 .. (siguienteClave - 1)

\* ------------------------------------- agenteApiController / agentesController
\* The body of the loop over the active agents: the current hash, then the
\* previous hash if there is one and it was rotated less than 24 h ago.
claveCoincide(agente, claveSecreta) ==
  IF bcryptCompare(claveSecreta, agente.clave_hash) THEN "actual"
  ELSE IF /\ agente.clave_anterior_hash # 0
          /\ agente.clave_rotada_at # 0
          /\ now - agente.clave_rotada_at < veinticuatroHoras
          /\ bcryptCompare(claveSecreta, agente.clave_anterior_hash)
    THEN "anterior"
  ELSE "no"

\* The loop run over every stored agent, active or not.
agenteEncontrado_sinFiltro(claveSecreta) ==
  LET todos == {a \in AgenteIds : agentes[a].existe}
      coinciden == {a \in todos : claveCoincide(agentes[a], claveSecreta) # "no"}
  IN  IF coinciden = {} THEN NULL ELSE CHOOSE a \in coinciden : TRUE

\* select ... .eq('activo', true), then the loop: the agent found, or NULL.
\* (A secret belongs to one agent, so the order of the rows does not matter.)
agenteEncontrado(claveSecreta) ==
  LET activos == {a \in AgenteIds : agentes[a].existe /\ agentes[a].activo}
      coinciden == {a \in activos : claveCoincide(agentes[a], claveSecreta) # "no"}
  IN  IF coinciden = {} THEN NULL ELSE CHOOSE a \in coinciden : TRUE

\* jwt.sign({agenteId, nombre, tipo: 'agente'}, JWT_SECRET, {expiresIn}):
\* iat is in seconds.
generarTokenAgente(agenteId) ==
  [agenteId |-> agenteId, tipo |-> "agente", iat |-> now \div 1000,
   firma |-> "JWT_SECRET"]

\* jwt.verify(token, JWT_SECRET)
jwtVerify(token) ==
  IF token.firma # "JWT_SECRET" THEN "JsonWebTokenError"
  ELSE IF now \div 1000 >= token.iat + TOKEN_EXPIRY THEN "TokenExpiredError"
  ELSE "ok"

\* POST /api/agente/auth.  The update of ultimo_heartbeat and the log row it
\* writes are columns nothing here reads.
Autenticar(claveSecreta) ==
  LET a == agenteEncontrado(claveSecreta)
      token == generarTokenAgente(a)
      resp(st) == [SinSalida EXCEPT !.op = "autenticar", !.status = st]
  IN
  /\ IF claveSecreta = 0 THEN
       /\ salida' = resp(400)
       /\ UNCHANGED tokens
     ELSE IF a = NULL THEN
       /\ salida' = resp(401)
       /\ UNCHANGED tokens
     ELSE
       /\ salida' = [resp(200) EXCEPT !.agenteId = a, !.token = token]
       /\ tokens' = IF Cardinality(tokens) < MaxTokens
                      THEN tokens \cup {token} ELSE tokens
  /\ UNCHANGED <<now, agentes, rotadores, siguienteClave, historial, peticiones>>
  /\ UNCHANGED varsSesiones
  /\ UNCHANGED varsLimite
  /\ UNCHANGED varsSocket

\* verificarClaveAgente(claveSecreta), the check of the socket handshake.
VerificarClaveAgente(claveSecreta) ==
  LET a == agenteEncontrado(claveSecreta) IN
  /\ salida' = [SinSalida EXCEPT !.op = "verificarClave",
                  !.status = IF a = NULL THEN 401 ELSE 200, !.agenteId = a]
  /\ UNCHANGED <<now, agentes, rotadores, siguienteClave, historial, tokens,
                 peticiones>>
  /\ UNCHANGED varsSesiones
  /\ UNCHANGED varsLimite
  /\ UNCHANGED varsSocket

\* ------------------------------------------------ adminAgentesController.js
\* POST /api/admin/agentes/:id/rotar-clave, up to the update: the permission
\* check and the read of clave_hash.
RotarClaveAgente(r, esSuper, id) ==
  LET resp(st) == [SinSalida EXCEPT !.op = "rotar", !.status = st] IN
  /\ rotadores[r].pc = "idle"
  /\ RotacionesIniciadas < MaxRotaciones
  /\ IF ~esSuper THEN
       /\ salida' = resp(403)
       /\ UNCHANGED rotadores
     ELSE IF id \notin AgenteIds \/ ~agentes[id].existe THEN
       /\ salida' = resp(404)
       /\ UNCHANGED rotadores
     ELSE
       /\ rotadores' = [rotadores EXCEPT ![r] =
            [pc |-> "actualizar", agenteId |-> id,
             clave_hash |-> agentes[id].clave_hash]]
       /\ salida' = SinSalida
  /\ UNCHANGED <<now, agentes, siguienteClave, historial, tokens, peticiones>>
  /\ UNCHANGED varsSesiones
  /\ UNCHANGED varsLimite
  /\ UNCHANGED varsSocket

\* POST /api/agentes/rotar-clave, up to the update: the permission check and
\* the read of the workspace with agentes(id, clave_hash).
RotarClave(r, tienePermiso, workspaceId) ==
  LET resp(st) == [SinSalida EXCEPT !.op = "rotar", !.status = st]
      id == WorkspaceAgente[workspaceId]
  IN
  /\ rotadores[r].pc = "idle"
  /\ RotacionesIniciadas < MaxRotaciones
  /\ IF ~tienePermiso THEN
       /\ salida' = resp(403)
       /\ UNCHANGED rotadores
     ELSE IF id = NULL \/ ~agentes[id].existe THEN
       /\ salida' = resp(400)
       /\ UNCHANGED rotadores
     ELSE
       /\ rotadores' = [rotadores EXCEPT ![r] =
            [pc |-> "actualizar", agenteId |-> id,
             clave_hash |-> agentes[id].clave_hash]]
       /\ salida' = SinSalida
  /\ UNCHANGED <<now, agentes, siguienteClave, historial, tokens, peticiones>>
  /\ UNCHANGED varsSesiones
  /\ UNCHANGED varsLimite
  /\ UNCHANGED varsSocket

\* The rest of either rotation: generarClaveSecreta, bcrypt.hash, and the
\* update (clave_anterior_hash := the hash read, clave_hash := the new hash,
\* clave_rotada_at := now), which takes effect or fails (errorUpdate).  An
\* update that finds no row is not an error.
RotarActualizar(r, falla) ==
  LET id == rotadores[r].agenteId
      nuevaClave == siguienteClave
      nuevoHash == bcryptHash(nuevaClave)
      resp(st) == [SinSalida EXCEPT !.op = "rotar", !.status = st]
  IN
  /\ rotadores[r].pc = "actualizar"
  /\ siguienteClave' = siguienteClave + 1
  /\ IF falla THEN
       /\ salida' = resp(500)
       /\ UNCHANGED <<agentes, historial>>
     ELSE
       /\ salida' = [resp(200) EXCEPT !.agenteId = id, !.nuevaClave = nuevaClave]
       /\ IF agentes[id].existe THEN
            /\ agentes' = [agentes EXCEPT
                 ![id].clave_anterior_hash = rotadores[r].clave_hash,
                 ![id].clave_hash = nuevoHash,
                 ![id].clave_rotada_at = now]
            /\ historial' = [historial EXCEPT ![id] = Append(@, nuevaClave)]
          ELSE UNCHANGED <<agentes, historial>>
  /\ rotadores' = [rotadores EXCEPT ![r] = RotadorLibre]
  /\ UNCHANGED <<now, tokens, peticiones>>
  /\ UNCHANGED varsSesiones
  /\ UNCHANGED varsLimite
  /\ UNCHANGED varsSocket

\* PUT /api/admin/agentes/:id with {activo}
ActualizarAgente(esSuper, id, activo) ==
  LET resp(st) == [SinSalida EXCEPT !.op = "actualizar", !.status = st] IN
  /\ IF ~esSuper THEN
       /\ salida' = resp(403)
       /\ UNCHANGED agentes
     ELSE IF id \notin AgenteIds \/ ~agentes[id].existe THEN
       /\ salida' = resp(500)
       /\ UNCHANGED agentes
     ELSE
       /\ agentes' = [agentes EXCEPT ![id].activo = activo]
       /\ salida' = [resp(200) EXCEPT !.agenteId = id]
  /\ UNCHANGED <<now, rotadores, siguienteClave, historial, tokens, peticiones>>
  /\ UNCHANGED varsSesiones
  /\ UNCHANGED varsLimite
  /\ UNCHANGED varsSocket

\* DELETE /api/admin/agentes/:id; `vinculado` says whether workspace_agentes
\* holds a row of the agent.
EliminarAgente(esSuper, id, vinculado) ==
  LET resp(st) == [SinSalida EXCEPT !.op = "eliminar", !.status = st] IN
  /\ IF ~esSuper THEN
       /\ salida' = resp(403)
       /\ UNCHANGED agentes
     ELSE IF vinculado THEN
       /\ salida' = resp(400)
       /\ UNCHANGED agentes
     ELSE
       /\ agentes' = [a \in AgenteIds |->
                        IF a = id THEN AgenteBorrado ELSE agentes[a]]
       /\ salida' = resp(200)
  /\ UNCHANGED <<now, rotadores, siguienteClave, historial, tokens, peticiones>>
  /\ UNCHANGED varsSesiones
  /\ UNCHANGED varsLimite
  /\ UNCHANGED varsSocket

\* ------------------------------------------------------------ authAgente.js
\* verificarTokenAgente without the .eq('activo', true) of its lookup.
agenteActivo_sinFiltro(agenteId) ==
  agenteId \in AgenteIds /\ agentes[agenteId].existe

\* select id, nombre, activo ... .eq('id', decoded.agenteId).eq('activo', true)
agenteActivo(agenteId) ==
  agenteId \in AgenteIds /\ agentes[agenteId].existe /\ agentes[agenteId].activo

\* What a caller can put in the Authorization header: nothing, a token it was
\* issued, such a token with another signature, or a token of another type
\* signed with the same JWT_SECRET.
TokensPresentables ==
  {SinToken} \cup tokens
    \cup {[t EXCEPT !.firma = "otra"] : t \in tokens}
    \cup {[t EXCEPT !.tipo = "usuario"] : t \in tokens}

\* Hours pass.
PasanHoras ==
  /\ now + TickAuthMs <= Epoch + MaxTicksAuth * TickAuthMs
  /\ now' = now + TickAuthMs
  /\ salida' = SinSalida
  /\ UNCHANGED varsSesiones
  /\ UNCHANGED varsAuth
  /\ UNCHANGED varsLimite
  /\ UNCHANGED varsSocket

\* ----------------------------------------------------------- rateLimiter.js
\* A key the map almacen has no entry for.
SinRegistro == [count |-> 0, windowStart |-> 0]

\* The middleware crearRateLimiter(maxRequests) returns, with the ceiling
\* test reading `>=` where the code reads `>`.
rateLimiter_gte(maxRequests, clave) ==
  LET registro == almacen[clave] IN
  IF registro = SinRegistro \/ now - registro.windowStart > VENTANA_MS
    THEN [almacen |-> [almacen EXCEPT ![clave] = [count |-> 1, windowStart |-> now]],
          pasa |-> TRUE, segundosRestantes |-> 0]
    ELSE LET count == registro.count + 1 IN
         [almacen |-> [almacen EXCEPT ![clave].count = count],
          pasa |-> ~(count >= maxRequests),
          segundosRestantes |->
            IF count >= maxRequests
              THEN CeilDiv(VENTANA_MS - (now - registro.windowStart), 1000)
              ELSE 0]

\* The middleware with a sliding window: every request moves windowStart.
rateLimiter_deslizante(maxRequests, clave) ==
  LET registro == almacen[clave] IN
  IF registro = SinRegistro \/ now - registro.windowStart > VENTANA_MS
    THEN [almacen |-> [almacen EXCEPT ![clave] = [count |-> 1, windowStart |-> now]],
          pasa |-> TRUE, segundosRestantes |-> 0]
    ELSE LET count == registro.count + 1 IN
         [almacen |-> [almacen EXCEPT ![clave] = [count |-> count, windowStart |-> now]],
          pasa |-> ~(count > maxRequests),
          segundosRestantes |->
            IF count > maxRequests
              THEN CeilDiv(VENTANA_MS - (now - registro.windowStart), 1000)
              ELSE 0]

\* The middleware crearRateLimiter(maxRequests) returns, applied to the key
\* of a request: the map afterwards, whether next() is called, and the
\* retryAfter of the 429 otherwise.
limitar(mapa, maxRequests, clave) ==
  LET registro == mapa[clave] IN
  IF registro = SinRegistro \/ now - registro.windowStart > VENTANA_MS
    THEN [almacen |-> [mapa EXCEPT ![clave] = [count |-> 1, windowStart |-> now]],
          pasa |-> TRUE, segundosRestantes |-> 0]
    ELSE LET count == registro.count + 1 IN
         [almacen |-> [mapa EXCEPT ![clave].count = count],
          pasa |-> ~(count > maxRequests),
          segundosRestantes |->
            IF count > maxRequests
              THEN CeilDiv(VENTANA_MS - (now - registro.windowStart), 1000)
              ELSE 0]

\* The middleware on the module's own map.
rateLimiter(maxRequests, clave) == limitar(almacen, maxRequests, clave)

\* The history kept beside a request on a key: the map without sweeps takes
\* the same request, and the key notes whether the sweep had deleted its
\* entry.
historiaBarrido(clave, tope) ==
  /\ sinBarrido' = limitar(sinBarrido, tope, clave).almacen
  /\ trasBarrido' = [trasBarrido EXCEPT
       ![clave] = almacen[clave] = SinRegistro /\ sinBarrido[clave] # SinRegistro]

\* The ceiling of the limiter a route carries.
maxRequests(ruta) ==
  IF ruta = RUTA_AUTH THEN MAX_AUTH
  ELSE IF ruta = RUTA_PING THEN MAX_PING
  ELSE MAX_AGENTE

\* trasRechazo after the limiter returned r for a key: a request that opens a
\* window records whether the window it replaces ended over the ceiling.
historiaVentana(r, clave, tope) ==
  IF r.almacen[clave].count = 1
    THEN [trasRechazo EXCEPT ![clave] = almacen[clave].count > tope]
    ELSE trasRechazo

\* A request from ip on a rate-limited route reaches the limiter of the
\* route: next() (salida.op = "next") or 429 with retryAfter.
RateLimit(ip, ruta) ==
  LET r == rateLimiter(maxRequests(ruta), <<ip, ruta>>) IN
  /\ almacen' = r.almacen
  /\ trasRechazo' = historiaVentana(r, <<ip, ruta>>, maxRequests(ruta))
  /\ historiaBarrido(<<ip, ruta>>, maxRequests(ruta))
  /\ salida' = IF r.pasa
                 THEN [SinSalida EXCEPT !.op = "next"]
                 ELSE [SinSalida EXCEPT !.op = "rateLimit", !.status = 429,
                         !.esperarSegundos = r.segundosRestantes]
  /\ UNCHANGED now
  /\ UNCHANGED varsSesiones
  /\ UNCHANGED varsAuth
  /\ UNCHANGED varsSocket

\* GET /api/agente/ping
RateLimitPing(ip) == RateLimit(ip, RUTA_PING)

\* POST /api/agente/auth
RateLimitAuth(ip) == RateLimit(ip, RUTA_AUTH)

\* The routes behind verificarTokenAgente that carry rateLimitAgente.
RateLimitAgente(ip, ruta) == RateLimit(ip, ruta)

\* The sweep deleting the entries whose window started more than half a
\* window ago.
Limpieza_temprana ==
  /\ almacen' = [k \in ClavesRL |->
                   IF almacen[k] # SinRegistro
                      /\ now - almacen[k].windowStart > VENTANA_MS \div 2
                     THEN SinRegistro ELSE almacen[k]]
  /\ UNCHANGED <<trasRechazo, sinBarrido, trasBarrido>>
  /\ salida' = SinSalida
  /\ UNCHANGED now
  /\ UNCHANGED varsSesiones
  /\ UNCHANGED varsAuth
  /\ UNCHANGED varsSocket

\* The setInterval of the module: entries whose window started more than
\* two windows ago are deleted.
Limpieza ==
  /\ almacen' = [k \in ClavesRL |->
                   IF almacen[k] # SinRegistro
                      /\ now - almacen[k].windowStart > VENTANA_MS * 2
                     THEN SinRegistro ELSE almacen[k]]
  /\ UNCHANGED <<trasRechazo, sinBarrido, trasBarrido>>
  /\ salida' = SinSalida
  /\ UNCHANGED now
  /\ UNCHANGED varsSesiones
  /\ UNCHANGED varsAuth
  /\ UNCHANGED varsSocket

\* Time passes for the rate limiter: a whole tick, or one millisecond.
PasaTiempo(d) ==
  /\ now + d <= Epoch + MaxTicksRL * TickMs + MaxMilis
  /\ d = 1 => (now % TickMs) < MaxMilis
  /\ now' = now + d
  /\ salida' = SinSalida
  /\ UNCHANGED varsSesiones
  /\ UNCHANGED varsAuth
  /\ UNCHANGED varsLimite
  /\ UNCHANGED varsSocket

\* ------------------------------------------- index.js: legacy socket path
\* crypto.randomUUID(): a request id is used once.
RequestIds == 1 .. MaxSolicitudes
\* The resultado an agent answers with.
ResultadosSocket == {"exito", "fallo"}
RES_TIMEOUT == "Timeout: el agente no respondió"
RES_SIN_AGENTES == "No hay agentes conectados"

\* A promise not yet created.  resoluciones counts the calls of resolve; the
\* first call settles the promise, a later one changes nothing.
PromesaLibre == [estado |-> "libre", resultado |-> NULL, resoluciones |-> 0]

resolve(promesa, resultado) ==
  IF promesa.estado = "resuelta"
    THEN [promesa EXCEPT !.resoluciones = @ + 1]
    ELSE [estado |-> "resuelta", resultado |-> resultado,
          resoluciones |-> promesa.resoluciones + 1]

\* An agent registers on a socket / its socket disconnects.
AgenteSocketConecta ==
  /\ agentesSocket < MaxSockets
  /\ agentesSocket' = agentesSocket + 1
  /\ salida' = SinSalida
  /\ UNCHANGED <<pendingCallbacks, timeouts, promesas, respuestas>>
  /\ UNCHANGED <<now, varsSesiones, varsAuth, varsLimite>>

AgenteSocketDesconecta ==
  /\ agentesSocket > 0
  /\ agentesSocket' = agentesSocket - 1
  /\ salida' = SinSalida
  /\ UNCHANGED <<pendingCallbacks, timeouts, promesas, respuestas>>
  /\ UNCHANGED <<now, varsSesiones, varsAuth, varsLimite>>

\* enviarTestConexion(requestId, datosTest) up to its return: the promise is
\* resolved at once when no agent is connected; otherwise the timer is set,
\* the callback is stored and the command is emitted.
enviarTestConexion(requestId) ==
  IF agentesSocket = 0
    THEN /\ promesas' = [promesas EXCEPT ![requestId] = resolve(@, RES_SIN_AGENTES)]
         /\ UNCHANGED <<pendingCallbacks, timeouts>>
    ELSE /\ promesas' = [promesas EXCEPT ![requestId].estado = "pendiente"]
         /\ timeouts' = [timeouts EXCEPT ![requestId] = "armado"]
         /\ pendingCallbacks' = pendingCallbacks \cup {requestId}

\* POST /api/test-conexion: 503 when no agent is connected, else a fresh
\* requestId and enviarTestConexion, whose promise the handler awaits.
ProbarConexion(requestId) ==
  /\ promesas[requestId].estado = "libre"
  /\ \A r \in RequestIds : r < requestId => promesas[r].estado # "libre"
  /\ IF agentesSocket = 0
       THEN /\ salida' = [SinSalida EXCEPT !.op = "probarConexion", !.status = 503]
            /\ UNCHANGED <<pendingCallbacks, timeouts, promesas>>
       ELSE /\ enviarTestConexion(requestId)
            /\ salida' = SinSalida
  /\ UNCHANGED <<agentesSocket, respuestas>>
  /\ UNCHANGED <<now, varsSesiones, varsAuth, varsLimite>>

\* procesarRespuestaTest calling the callback without removing its entry or
\* clearing its timer.
ProcesarRespuestaTest_sinBorrar(requestId, resultado) ==
  /\ timeouts[requestId] # "none"
  /\ respuestas[requestId] < MaxRespuestas
  /\ respuestas' = [respuestas EXCEPT ![requestId] = @ + 1]
  /\ IF requestId \in pendingCallbacks
       THEN /\ promesas' = [promesas EXCEPT ![requestId] = resolve(@, resultado)]
            /\ salida' = [SinSalida EXCEPT !.op = "probarConexion", !.status = 200,
                            !.estado = resultado]
       ELSE /\ UNCHANGED promesas
            /\ salida' = SinSalida
  /\ UNCHANGED <<agentesSocket, pendingCallbacks, timeouts>>
  /\ UNCHANGED <<now, varsSesiones, varsAuth, varsLimite>>

\* socket.on('modbus:test:respuesta') -> procesarRespuestaTest: an agent that
\* got the command answers with its requestId.  The stored callback, if
\* there is one, clears the timer, deletes the entry and resolves; the
\* handler of the request then answers with the result.
ProcesarRespuestaTest(requestId, resultado) ==
  /\ timeouts[requestId] # "none"
  /\ respuestas[requestId] < MaxRespuestas
  /\ respuestas' = [respuestas EXCEPT ![requestId] = @ + 1]
  /\ IF requestId \in pendingCallbacks
       THEN /\ timeouts' = [timeouts EXCEPT ![requestId] = "cancelado"]
            /\ pendingCallbacks' = pendingCallbacks \ {requestId}
            /\ promesas' = [promesas EXCEPT ![requestId] = resolve(@, resultado)]
            /\ salida' = [SinSalida EXCEPT !.op = "probarConexion", !.status = 200,
                            !.estado = resultado]
       ELSE /\ UNCHANGED <<timeouts, pendingCallbacks, promesas>>
            /\ salida' = SinSalida
  /\ UNCHANGED agentesSocket
  /\ UNCHANGED <<now, varsSesiones, varsAuth, varsLimite>>

\* The 10 s timer of a request fires: the entry is deleted and the promise
\* resolved with the timeout result.
TimeoutTest(requestId) ==
  /\ timeouts[requestId] = "armado"
  /\ timeouts' = [timeouts EXCEPT ![requestId] = "disparado"]
  /\ pendingCallbacks' = pendingCallbacks \ {requestId}
  /\ promesas' = [promesas EXCEPT ![requestId] = resolve(@, RES_TIMEOUT)]
  /\ salida' = [SinSalida EXCEPT !.op = "probarConexion", !.status = 200,
                  !.estado = RES_TIMEOUT]
  /\ UNCHANGED <<agentesSocket, respuestas>>
  /\ UNCHANGED <<now, varsSesiones, varsAuth, varsLimite>>

\* ------------------------------------- routes/index.js: the agent routes
\* verificarTokenAgente up to its lookup: the header, jwt.verify, tipo.
VerificarTokenAgente(p, ip, ruta, token) ==
  LET resp(st) == [SinSalida EXCEPT !.op = "verificarToken", !.status = st] IN
  /\ peticiones[p].pc = "idle"
  /\ IF token = SinToken THEN
       /\ salida' = resp(401)
       /\ UNCHANGED peticiones
     ELSE IF jwtVerify(token) # "ok" THEN
       /\ salida' = resp(401)
       /\ UNCHANGED peticiones
     ELSE IF token.tipo # "agente" THEN
       /\ salida' = resp(401)
       /\ UNCHANGED peticiones
     ELSE
       /\ peticiones' = [peticiones EXCEPT ![p] =
            [pc |-> "buscar", agenteId |-> token.agenteId,
             ip |-> ip, ruta |-> ruta]]
       /\ salida' = SinSalida
  /\ UNCHANGED <<now, agentes, rotadores, siguienteClave, historial, tokens>>
  /\ UNCHANGED varsSesiones
  /\ UNCHANGED varsLimite
  /\ UNCHANGED varsSocket

\* The route table: the routes whose chain has rateLimitAgente between
\* verificarTokenAgente and the handler.
tieneLimitador(ruta) == ruta \in RutasLimitadas

\* The lookup of the agent returns: 401 (salida names the agent the token
\* was for), or req.agente is set and next() runs the rest of the chain of
\* the route up to its handler: rateLimitAgente where the route has it (429
\* ends the request), then the handler starts.
VerificarBuscar(p) ==
  LET ip == peticiones[p].ip
      ruta == peticiones[p].ruta
      r == rateLimiter(MAX_AGENTE, <<ip, ruta>>)
  IN
  /\ peticiones[p].pc = "buscar"
  /\ IF ~agenteActivo(peticiones[p].agenteId) THEN
       /\ peticiones' = [peticiones EXCEPT ![p] = PeticionLibre]
       /\ salida' = [SinSalida EXCEPT !.op = "verificarToken", !.status = 401,
                       !.agenteId = peticiones[p].agenteId]
       /\ UNCHANGED varsLimite
     ELSE IF ~tieneLimitador(ruta) THEN
       /\ peticiones' = [peticiones EXCEPT ![p].pc = "handler"]
       /\ salida' = SinSalida
       /\ UNCHANGED varsLimite
     ELSE
       /\ almacen' = r.almacen
       /\ trasRechazo' = historiaVentana(r, <<ip, ruta>>, MAX_AGENTE)
       /\ historiaBarrido(<<ip, ruta>>, MAX_AGENTE)
       /\ IF r.pasa THEN
            /\ peticiones' = [peticiones EXCEPT ![p].pc = "handler"]
            /\ salida' = SinSalida
          ELSE
            /\ peticiones' = [peticiones EXCEPT ![p] = PeticionLibre]
            /\ salida' = [SinSalida EXCEPT !.op = "rateLimit", !.status = 429,
                            !.esperarSegundos = r.segundosRestantes]
  /\ UNCHANGED <<now, agentes, rotadores, siguienteClave, historial, tokens>>
  /\ UNCHANGED varsSesiones
  /\ UNCHANGED varsSocket

\* The handler of a route behind verificarTokenAgente answers: it ran as
\* req.agente.id.
Operacion(p, op) ==
  /\ peticiones[p].pc = "handler"
  /\ peticiones' = [peticiones EXCEPT ![p] = PeticionLibre]
  /\ salida' = [SinSalida EXCEPT !.op = op, !.status = 200,
                  !.agenteId = peticiones[p].agenteId]
  /\ UNCHANGED <<now, agentes, rotadores, siguienteClave, historial, tokens>>
  /\ UNCHANGED varsSesiones
  /\ UNCHANGED varsLimite
  /\ UNCHANGED varsSocket

\* POST /api/agente/heartbeat
Heartbeat(p) ==
  /\ peticiones[p].ruta = RUTA_HEARTBEAT
  /\ Operacion(p, "heartbeat")

\* The other routes behind verificarTokenAgente: config, lecturas, log,
\* vincular, eventos, tests/:testId/resultado.
OperacionProtegida(p) ==
  /\ peticiones[p].ruta # RUTA_HEARTBEAT
  /\ Operacion(p, peticiones[p].ruta)

\* ----------------------------------------------------------- specification
\* The table agentes after crearAgente for a1 and a2; nothing in flight.
InitAuth ==
  /\ agentes = [a \in AgenteIds |->
                  [existe |-> TRUE, activo |-> TRUE,
                   clave_hash |-> bcryptHash(ClaveInicial[a]),
                   clave_anterior_hash |-> 0, clave_rotada_at |-> 0]]
  /\ rotadores = [r \in RotIds |-> RotadorLibre]
  /\ siguienteClave = PrimeraClaveNueva
  /\ historial = [a \in AgenteIds |-> <<ClaveInicial[a]>>]
  /\ tokens = {}
  /\ peticiones = [p \in PetIds |-> PeticionLibre]
  /\ almacen = [k \in ClavesRL |-> SinRegistro]
  /\ trasRechazo = [k \in ClavesRL |-> FALSE]
  /\ sinBarrido = [k \in ClavesRL |-> SinRegistro]
  /\ trasBarrido = [k \in ClavesRL |-> FALSE]
  /\ agentesSocket = 0
  /\ pendingCallbacks = {}
  /\ timeouts = [r \in RequestIds |-> "none"]
  /\ promesas = [r \in RequestIds |-> PromesaLibre]
  /\ respuestas = [r \in RequestIds |-> 0]

InitTest ==
  /\ InitAuth
  /\ now = Epoch
  /\ test_registrador = <<>>
  /\ agentesConectados = [a \in TodosIds |-> 0]
  /\ canales = <<>>
  /\ cooldownTests = [k \in Claves |-> 0]
  /\ hilos = [h \in HiloIds |-> HiloLibre]
  /\ revelados = {}
  /\ salida = SinSalida
  /\ permitidos = [k \in Claves |-> 0]

\* The state after agent a1 has opened its event stream (ConectarSSE("a1")
\* from InitTest); a2 has not connected.
InitConectado ==
  /\ InitAuth
  /\ now = Epoch
  /\ test_registrador = <<>>
  /\ canales = <<[agente |-> "a1", estado |-> "abierto",
                  writableEnded |-> FALSE, intervalo |-> TRUE,
                  latidos |-> 0]>>
  /\ agentesConectados = [a \in TodosIds |-> IF a = "a1" THEN 1 ELSE 0]
  /\ cooldownTests = [k \in Claves |-> 0]
  /\ hilos = [h \in HiloIds |-> HiloLibre]
  /\ revelados = {}
  /\ salida = SinSalida
  /\ permitidos = [k \in Claves |-> 0]

\* The cool-down gate: requests of any caller for any agent and target, over
\* time, with a1 connected.
NextCooldown ==
  \/ Tick
  \/ \E h \in HiloIds, esSuper \in BOOLEAN, a \in TodosIds, ip \in Ips, p \in Puertos :
       SolicitarTest(h, esSuper, a, ip, p)
  \/ \E h \in HiloIds, esSuper \in BOOLEAN, a \in TodosIds, ip \in Ips, p \in Puertos :
       SolicitarTestCoils(h, esSuper, a, ip, p)
  \/ \E h \in HiloIds, falla \in BOOLEAN : SolicitarInsertar(h, falla)
  \/ \E h \in HiloIds, lanza \in BOOLEAN : SolicitarEnviar(h, lanza)
  \/ \E h \in HiloIds : SolicitarActualizar(h)

SpecCooldown == InitConectado /\ [][NextCooldown]_vars

\* The cool-down gate with both agents connected: requests through either
\* agent for either target, over time.
NextObjetivo ==
  \/ Tick
  \/ \E a \in AgenteIds : ConectarSSE(a)
  \/ \E h \in HiloIds, a \in AgenteIds, ip \in Ips, p \in Puertos :
       SolicitarTest(h, TRUE, a, ip, p)
  \/ \E h \in HiloIds, a \in AgenteIds, ip \in Ips, p \in Puertos :
       SolicitarTestCoils(h, TRUE, a, ip, p)
  \/ \E h \in HiloIds : SolicitarInsertar(h, FALSE)
  \/ \E h \in HiloIds : SolicitarEnviar(h, FALSE)
  \/ \E h \in HiloIds : SolicitarActualizar(h)

SpecObjetivo == InitConectado /\ [][NextObjetivo]_vars

\* The event streams and their heartbeat timers.  A timer that is set keeps
\* firing: setInterval is weakly fair.
NextLatido ==
  \/ \E a \in AgenteIds : ConectarSSE(a)
  \/ \E c \in DOMAIN canales : TransporteCae(c)
  \/ \E c \in DOMAIN canales : ReqClose(c)
  \/ \E c \in DOMAIN canales : ReqError(c)
  \/ \E c \in DOMAIN canales : ResEnd(c)
  \/ \E c \in 1 .. MaxCanales : HeartbeatSSE(c)

SpecLatido ==
  /\ InitTest
  /\ [][NextLatido]_vars
  /\ \A c \in 1 .. MaxCanales : WF_vars(HeartbeatSSE(c))

\* Authentication by secret while agents are deactivated and reactivated and
\* the key of a1 is rotated, over days.  The secrets presented are those
\* that have been issued.
RotIdsSecreto == {"r1"}

NextSecreto ==
  \/ PasanHoras
  \/ \E r \in RotIdsSecreto : RotarClaveAgente(r, TRUE, "a1")
  \/ \E r \in RotIdsSecreto : RotarActualizar(r, FALSE)
  \/ \E id \in AgenteIds, activo \in BOOLEAN : ActualizarAgente(TRUE, id, activo)
  \/ \E c \in ClavesEmitidas : Autenticar(c)
  \/ \E c \in ClavesEmitidas : VerificarClaveAgente(c)

SpecSecreto == InitTest /\ [][NextSecreto]_vars

\* The legacy socket path: agents come and go, tests are requested, agents
\* answer (late, or twice), timers fire.  A timer that is set fires unless
\* it is cleared: setTimeout is weakly fair.
NextSocket ==
  \/ AgenteSocketConecta
  \/ AgenteSocketDesconecta
  \/ \E r \in RequestIds : ProbarConexion(r)
  \/ \E r \in RequestIds, res \in ResultadosSocket : ProcesarRespuestaTest(r, res)
  \/ \E r \in RequestIds : TimeoutTest(r)

SpecSocket ==
  /\ InitTest
  /\ [][NextSocket]_vars
  /\ \A r \in RequestIds : WF_vars(TimeoutTest(r))

\* Dispatch: agents connecting and disconnecting while a superadmin requests
\* tests.
IpsDespacho == {"10.0.0.5"}

NextDespacho ==
  \/ \E a \in AgenteIds : ConectarSSE(a)
  \/ \E c \in DOMAIN canales : TransporteCae(c)
  \/ \E c \in DOMAIN canales : ReqClose(c)
  \/ \E c \in DOMAIN canales : ReqError(c)
  \/ \E c \in DOMAIN canales : ResEnd(c)
  \/ \E h \in HiloIds, a \in AgenteIds, ip \in IpsDespacho, p \in Puertos :
       SolicitarTest(h, TRUE, a, ip, p)
  \/ \E h \in HiloIds, a \in AgenteIds, ip \in IpsDespacho, p \in Puertos :
       SolicitarTestCoils(h, TRUE, a, ip, p)
  \/ \E h \in HiloIds, falla \in BOOLEAN : SolicitarInsertar(h, falla)
  \/ \E h \in HiloIds, lanza \in BOOLEAN : SolicitarEnviar(h, lanza)
  \/ \E h \in HiloIds : SolicitarActualizar(h)
  \/ \E h \in HiloIds, a \in AgenteIds, t \in Respondidos :
       ConsultarTest(h, TRUE, a, t)
  \/ \E h \in HiloIds, a \in AgenteIds, t \in revelados, exito \in BOOLEAN,
        e \in ErroresPosibles :
       ReportarResultadoTest(h, a, t, exito, "v1", e)
  \/ \E h \in HiloIds : ReportarGuardar(h, FALSE)

SpecDespacho == InitTest /\ [][NextDespacho]_vars

\* The life of a session: solicitarTest by a superadmin for one target of the
\* connected agent, then consultarTest and reportarResultadoTest by either
\* agent, over time.
IpsSesion == {"10.0.0.5"}

NextSesion ==
  \/ Tick
  \/ \E h \in HiloIds, a \in AgenteIds, ip \in IpsSesion, p \in Puertos :
       SolicitarTest(h, TRUE, a, ip, p)
  \/ \E h \in HiloIds : SolicitarInsertar(h, FALSE)
  \/ \E h \in HiloIds, lanza \in BOOLEAN : SolicitarEnviar(h, lanza)
  \/ \E h \in HiloIds : SolicitarActualizar(h)
  \/ \E h \in HiloIds, a \in AgenteIds, t \in Respondidos :
       ConsultarTest(h, TRUE, a, t)
  \/ \E h \in HiloIds : ConsultarMarcarTimeout(h)
  \/ \E h \in HiloIds, a \in AgenteIds, t \in revelados, exito \in BOOLEAN,
        v \in ValoresPosibles, e \in ErroresPosibles :
       ReportarResultadoTest(h, a, t, exito, v, e)
  \/ \E h \in HiloIds, falla \in BOOLEAN : ReportarGuardar(h, falla)

SpecSesion == InitConectado /\ [][NextSesion]_vars

\* Key rotation and authentication by secret, over days.
NextClaves ==
  \/ PasanHoras
  \/ \E r \in RotIds, esSuper \in BOOLEAN, id \in TodosIds :
       RotarClaveAgente(r, esSuper, id)
  \/ \E r \in RotIds, tienePermiso \in BOOLEAN, w \in Workspaces :
       RotarClave(r, tienePermiso, w)
  \/ \E r \in RotIds, falla \in BOOLEAN : RotarActualizar(r, falla)
  \/ \E c \in ClavesEmitidas \cup ClavesAjenas \cup {0} : Autenticar(c)
  \/ \E c \in ClavesEmitidas \cup ClavesAjenas : VerificarClaveAgente(c)

SpecClaves == InitTest /\ [][NextClaves]_vars

\* Tokens: issue by secret, deactivation and deletion of agents, and the
\* requests that present a token, over days.
\* (The requests are followed on a route that carries no limiter.)
RutasToken == {"/api/agente/vincular"}
IpsToken == {"10.0.0.5"}

NextToken ==
  \/ PasanHoras
  \/ \E c \in ClavesEmitidas \cup ClavesAjenas \cup {0} : Autenticar(c)
  \/ \E esSuper \in BOOLEAN, id \in AgenteIds, activo \in BOOLEAN :
       ActualizarAgente(esSuper, id, activo)
  \/ \E esSuper \in BOOLEAN, id \in AgenteIds, vinculado \in BOOLEAN :
       EliminarAgente(esSuper, id, vinculado)
  \/ \E p \in PetIds, ruta \in RutasToken, token \in TokensPresentables :
       \E ip \in IpsToken : VerificarTokenAgente(p, ip, ruta, token)
  \/ \E p \in PetIds : VerificarBuscar(p)
  \/ \E p \in PetIds : OperacionProtegida(p)

SpecToken == InitTest /\ [][NextToken]_vars


\* The rate limiter over time.  A run follows the traffic of one route (the
\* keys of different routes never meet); two callers share the auth route,
\* the other routes are followed for one caller; and a key stops asking once
\* it is MaxExceso requests over the ceiling of its window.
UnaRuta(ruta) ==
  \A k \in ClavesRL :
    (almacen[k] # SinRegistro \/ sinBarrido[k] # SinRegistro) => k[2] = ruta

Llamadores(ruta) == IF ruta = RUTA_AUTH THEN IpsRL ELSE {"10.0.0.5"}

PuedePedir(ip, ruta) ==
  /\ UnaRuta(ruta)
  /\ \/ now - almacen[<<ip, ruta>>].windowStart > VENTANA_MS
     \/ almacen[<<ip, ruta>>].count < maxRequests(ruta) + MaxExceso

NextLimite ==
  \/ \E d \in {1, TickMs} : PasaTiempo(d)
  \/ \E ip \in Llamadores(RUTA_PING) : PuedePedir(ip, RUTA_PING) /\ RateLimitPing(ip)
  \/ \E ip \in Llamadores(RUTA_AUTH) : PuedePedir(ip, RUTA_AUTH) /\ RateLimitAuth(ip)
  \/ \E ruta \in RutasLimitadas : \E ip \in Llamadores(ruta) :
       PuedePedir(ip, ruta) /\ RateLimitAgente(ip, ruta)
  \/ Limpieza

SpecLimite == InitTest /\ [][NextLimite]_vars


\* The agent routes behind verificarTokenAgente: agent a1 obtains its token
\* and presents it, or a token that is not good, on any of the routes.  A
\* run follows the limiter of one route, for one caller, up to MaxExceso
\* requests over its ceiling.
IpsRutas == {"10.0.0.5"}

EnVuelo(ip, ruta) ==
  Cardinality({p \in PetIds : peticiones[p].pc = "buscar"
                                /\ peticiones[p].ip = ip
                                /\ peticiones[p].ruta = ruta})

PuedePedirRuta(ip, ruta) ==
  IF ~tieneLimitador(ruta) THEN TRUE
  ELSE /\ UnaRuta(ruta)
       /\ \A p \in PetIds :
            tieneLimitador(peticiones[p].ruta) => peticiones[p].ruta = ruta
       /\ almacen[<<ip, ruta>>].count + EnVuelo(ip, ruta) < MAX_AGENTE + MaxExceso

NextRutas ==
  \/ Autenticar(ClaveInicial["a1"])
  \/ \E p \in PetIds, ip \in IpsRutas, ruta \in RutasProtegidas,
        token \in TokensPresentables :
       PuedePedirRuta(ip, ruta) /\ VerificarTokenAgente(p, ip, ruta, token)
  \/ \E p \in PetIds : VerificarBuscar(p)
  \/ \E p \in PetIds : Heartbeat(p)
  \/ \E p \in PetIds : OperacionProtegida(p)

SpecRutas == InitTest /\ [][NextRutas]_vars

\* Sessions of a1 across the loss of its event stream, over time: requests,
\* polls and reports while the stream breaks and closes.
NextDesconexion ==
  \/ Tick
  \/ \E c \in DOMAIN canales : TransporteCae(c)
  \/ \E c \in DOMAIN canales : ReqClose(c)
  \/ \E c \in DOMAIN canales : ReqError(c)
  \/ \E c \in DOMAIN canales : ResEnd(c)
  \/ \E h \in HiloIds, ip \in IpsSesion, p \in Puertos :
       SolicitarTest(h, TRUE, "a1", ip, p)
  \/ \E h \in HiloIds : SolicitarInsertar(h, FALSE)
  \/ \E h \in HiloIds : SolicitarEnviar(h, FALSE)
  \/ \E h \in HiloIds : SolicitarActualizar(h)
  \/ \E h \in HiloIds, t \in Respondidos : ConsultarTest(h, TRUE, "a1", t)
  \/ \E h \in HiloIds : ConsultarMarcarTimeout(h)
  \/ \E h \in HiloIds, t \in revelados :
       ReportarResultadoTest(h, "a1", t, TRUE, "v1", NULL)
  \/ \E h \in HiloIds : ReportarGuardar(h, FALSE)

SpecDesconexion == InitConectado /\ [][NextDesconexion]_vars

\* ------------------------------------------------------------------ claims
\* C1: a solicitarTest/solicitarTestCoils request for a connected agent and a
\* target (ip, puerto) passes the cool-down gate when no request for that
\* target has passed it before or the last one that passed did so 60 s or
\* more ago, and is answered 429 with esperarSegundos > 0, changing nothing,
\* when the last one passed less than 60 s ago.
C1_CooldownGate ==
  [][\A h \in HiloIds, a \in AgenteIds, ip \in Ips, p \in Puertos :
       (SolicitarInicio(h, TRUE, a, ip, p) /\ agenteConectado(a)) =>
         LET ultimo == permitidos[Clave(ip, p)] IN
         IF ultimo # 0 /\ now - ultimo < 60 * 1000
           THEN /\ salida'.status = 429
                /\ salida'.esperarSegundos > 0
                /\ UNCHANGED <<hilos, cooldownTests, permitidos>>
           ELSE /\ hilos'[h].pc = "insertar"
                /\ permitidos'[Clave(ip, p)] = now
                /\ salida'.status = 0]_vars

\* C1 witness: a request has just passed the gate for a target for which an
\* earlier request passed 60 s or more ago (its row is in the table).
C1_Witness ==
  \E h \in HiloIds, t \in DOMAIN test_registrador :
    /\ hilos[h].op = "solicitar" /\ hilos[h].pc = "insertar"
    /\ test_registrador[t].ip = hilos[h].ip
    /\ test_registrador[t].puerto = hilos[h].puerto
    /\ permitidos[Clave(hilos[h].ip, hilos[h].puerto)] = now
    /\ now - test_registrador[t].created_at >= 60 * 1000

\* C2: a session still pendiente or enviado more than 30 s after its creation
\* is stored as timeout by the next consultarTest, and from then on its
\* stored state is timeout for ever.
C2_TimeoutEsFinal ==
  [][\A t \in DOMAIN test_registrador :
       test_registrador[t].estado = "timeout" =>
         test_registrador'[t].estado = "timeout"]_vars

\* C3: of the reportarResultadoTest calls of the owning agent on one session
\* only one is accepted: the update of an accepted call never lands on a
\* session that already holds a reported result.
C3_UnaSolaResolucion ==
  [][\A h \in HiloIds :
       ReportarGuardar(h, FALSE) =>
         test_registrador[hilos[h].testId].estado \notin {"completado", "error"}]_vars

\* C4: between the lazy timeout of consultarTest and the result of
\* reportarResultadoTest the terminal write that lands first is final: a
\* session never goes from timeout to completado or error, nor from
\* completado or error to timeout.
C4_PrimerTerminalGana ==
  [][\A t \in DOMAIN test_registrador :
       LET antes == test_registrador[t].estado
           despues == test_registrador'[t].estado
       IN  /\ (antes = "timeout" /\ despues \in Terminales) => despues = "timeout"
           /\ (antes \in {"completado", "error"} /\ despues \in Terminales)
                => despues # "timeout"]_vars

\* C5: solicitarTest / solicitarTestCoils for an agent without a registered
\* SSE channel answers 503 at once and creates no session; when the channel
\* is gone by the time of the dispatch, the row already created is stored as
\* error with the 503, and such a row stays as it is.
C5_SinCanalEs503 ==
  [][/\ \A h \in HiloIds, a \in AgenteIds, ip \in Ips, p \in Puertos :
          (SolicitarInicio(h, TRUE, a, ip, p) /\ agentesConectados[a] = 0)
            => /\ salida'.op = "solicitar" /\ salida'.status = 503
               /\ UNCHANGED <<test_registrador, hilos, cooldownTests>>
     /\ \A h \in HiloIds, lanza \in BOOLEAN :
          (SolicitarEnviar(h, lanza) /\ agentesConectados[hilos[h].agenteId] = 0)
            => ~hilos'[h].enviado
     /\ \A h \in HiloIds :
          (SolicitarActualizar(h) /\ ~hilos[h].enviado)
            => /\ salida'.status = 503
               /\ test_registrador'[hilos[h].testId].estado = "error"
     /\ \A t \in DOMAIN test_registrador :
          (test_registrador[t].estado = "error"
             /\ test_registrador[t].error_mensaje = MSG_DESCONECTADO)
            => test_registrador'[t] = test_registrador[t]]_vars

\* C5 witness: a request has just been answered 503 for a session it had
\* created, the session is stored as error and its agent has no registered
\* channel.
C5_Witness ==
  /\ salida.op = "solicitar" /\ salida.status = 503 /\ salida.testId # 0
  /\ test_registrador[salida.testId].estado = "error"
  /\ agentesConectados[test_registrador[salida.testId].agente_id] = 0

\* C6: a reportarResultadoTest call by an agent other than the session's
\* agente_id is answered 404 and changes neither the table nor any handler,
\* and every result an update stores was reported by the session's own agent.
C6_SoloElAgenteDueno ==
  [][/\ \A h \in HiloIds, b \in AgenteIds, t \in revelados, exito \in BOOLEAN,
          v \in ValoresPosibles, e \in ErroresPosibles :
          (ReportarResultadoTest(h, b, t, exito, v, e)
             /\ test_registrador[t].agente_id # b)
            => (salida'.status = 404 /\ UNCHANGED <<test_registrador, hilos>>)
     /\ \A h \in HiloIds :
          ReportarGuardar(h, FALSE)
            => hilos[h].agenteId = test_registrador[hilos[h].testId].agente_id]_vars

\* C6 witness: an agent has just been answered 404 by reportarResultadoTest
\* while every session it could name exists and one of them is unresolved.
C6_Witness ==
  /\ salida.op = "reportar" /\ salida.status = 404
  /\ \E t \in revelados : test_registrador[t].estado \in NoTerminales

\* C7: after any sequence of rotations of an active agent's key, the secret
\* the most recent rotation returned authenticates; the secret that was
\* current immediately before that rotation authenticates while less than
\* 24 h have passed since the rotation and is refused once 24 h have passed.
C7_UltimaYAnterior ==
  [][\A a \in AgenteIds, c \in ClavesEmitidas :
       (Autenticar(c) /\ agentes[a].existe /\ agentes[a].activo
          /\ Len(historial[a]) >= 2)
         => LET n == Len(historial[a])
                rotadaHace == now - agentes[a].clave_rotada_at
            IN  /\ c = historial[a][n]
                     => (salida'.status = 200 /\ salida'.agenteId = a)
                /\ (c = historial[a][n - 1] /\ rotadaHace < 24 * 60 * 60 * 1000)
                     => (salida'.status = 200 /\ salida'.agenteId = a)
                /\ (c = historial[a][n - 1] /\ rotadaHace >= 24 * 60 * 60 * 1000)
                     => salida'.status = 401]_vars

\* C8: one generation of grace: once two rotations of an agent's key have
\* been committed, a secret older than the one before the last rotation no
\* longer authenticates; and a rotation never returns a secret that was
\* returned before.
C8_UnaGeneracion ==
  [][/\ \A a \in AgenteIds, c \in ClavesEmitidas :
          (Autenticar(c) /\ Len(historial[a]) >= 3
             /\ \E i \in 1 .. (Len(historial[a]) - 2) : c = historial[a][i])
            => salida'.status = 401
     /\ \A r \in RotIds :
          RotarActualizar(r, FALSE)
            => \A a \in AgenteIds : \A i \in DOMAIN historial[a] :
                 historial[a][i] # salida'.nuevaClave]_vars

\* C9: rotation is atomic per agent: whatever the interleaving of the
\* rotation calls, the stored previous hash is the hash that was current
\* immediately before the last committed rotation, and the secrets the last
\* two rotations returned match the stored current and previous hashes.
C9_RotacionAtomica ==
  \A a \in AgenteIds :
    (agentes[a].existe /\ Len(historial[a]) >= 2)
      => LET n == Len(historial[a])
         IN  /\ bcryptCompare(historial[a][n], agentes[a].clave_hash)
             /\ bcryptCompare(historial[a][n - 1], agentes[a].clave_anterior_hash)

\* C10: verificarTokenAgente lets a request through only when its token is
\* signed with JWT_SECRET, is less than 24 h old, is of tipo 'agente', and the
\* row of its agent exists and is active when the lookup returns; every
\* other request is answered 401, and a protected handler runs only for a
\* request that was let through.
C10_SoloAgenteActivo ==
  [][/\ \A p \in PetIds, ip \in IpsToken, ruta \in RutasToken,
           token \in TokensPresentables :
          VerificarTokenAgente(p, ip, ruta, token)
            => IF /\ token.firma = "JWT_SECRET"
                  /\ token.tipo = "agente"
                  /\ now \div 1000 < token.iat + 24 * 60 * 60
                 THEN /\ peticiones'[p].pc = "buscar"
                      /\ peticiones'[p].agenteId = token.agenteId
                      /\ salida'.status = 0
                 ELSE /\ salida'.status = 401
                      /\ UNCHANGED peticiones
     /\ \A p \in PetIds :
          VerificarBuscar(p)
            => LET a == peticiones[p].agenteId IN
               IF agentes[a].existe /\ agentes[a].activo
                 THEN peticiones'[p].pc = "handler" \/ salida'.status = 429
                 ELSE /\ salida'.status = 401
                      /\ peticiones'[p].pc = "idle"
     /\ \A p \in PetIds :
          (peticiones'[p].pc = "handler" /\ peticiones[p].pc # "handler")
            => /\ peticiones[p].pc = "buscar"
               /\ agentes[peticiones[p].agenteId].existe
               /\ agentes[peticiones[p].agenteId].activo
     /\ \A p \in PetIds :
          (salida'.op \in {"heartbeat"} \cup RutasProtegidas
             /\ peticiones'[p] # peticiones[p])
            => peticiones[p].pc = "handler"]_vars

\* C10 witness: a request has just been refused 401 by the lookup although
\* the agent holds a token that is signed and unexpired: the agent has been
\* deactivated or deleted.
C10_Witness ==
  /\ salida.op = "verificarToken" /\ salida.status = 401
  /\ salida.agenteId \in AgenteIds
  /\ ~(agentes[salida.agenteId].existe /\ agentes[salida.agenteId].activo)
  /\ \E t \in tokens : t.agenteId = salida.agenteId /\ jwtVerify(t) = "ok"

\* C11: the registry holds at most one channel per agent id: conectarSSE
\* sets the entry of its agent to the channel it has just opened and touches
\* no other entry, an entry always names a channel of its own agent, and an
\* event enviarEventoAgente writes goes to the channel registered last for
\* the agent and to no other.
C11_UnCanalPorAgente ==
  [][/\ \A a \in AgenteIds :
          ConectarSSE(a)
            => /\ agentesConectados'[a] = Len(canales) + 1
               /\ \A b \in TodosIds \ {a} :
                    agentesConectados'[b] = agentesConectados[b]
     /\ \A a \in AgenteIds :
          agentesConectados[a] # 0
            => /\ agentesConectados[a] \in DOMAIN canales
               /\ canales[agentesConectados[a]].agente = a
     /\ \A h \in HiloIds, lanza \in BOOLEAN :
          SolicitarEnviar(h, lanza)
            => LET a == hilos[h].agenteId
                   suyos == {c \in DOMAIN canales : canales[c].agente = a}
               IN  IF hilos'[h].enviado
                     THEN /\ hilos'[h].canal \in suyos
                          /\ \A c \in suyos : c <= hilos'[h].canal
                     ELSE hilos'[h].canal = 0]_vars

\* C11 witness: an agent has connected twice, its first channel is still
\* open, and an event sent afterwards was written to the second channel.
C11_Witness ==
  \E h \in HiloIds :
    /\ hilos[h].pc = "actualizar" /\ hilos[h].enviado /\ hilos[h].canal = 2
    /\ canales[1].agente = hilos[h].agenteId
    /\ canales[1].estado = "abierto"
    /\ agentesConectados[hilos[h].agenteId] = 2

\* C12: enviarEventoAgente returns true only when it wrote the event to the
\* channel registered for the agent, and whenever it returns false (no
\* channel, channel ended, write threw) the registry holds no entry for the
\* agent afterwards.
C12_FalloDesregistra ==
  [][\A h \in HiloIds, lanza \in BOOLEAN :
       SolicitarEnviar(h, lanza)
         => LET a == hilos[h].agenteId IN
            IF hilos'[h].enviado
              THEN /\ agentesConectados[a] # 0
                   /\ hilos'[h].canal = agentesConectados[a]
                   /\ agentesConectados' = agentesConectados
              ELSE agentesConectados'[a] = 0]_vars

\* C13: per key (ip, route) the limiter counts the requests of a window: the
\* first request of a window sets count = 1 and is let through, each later
\* request of the window adds one to the count, is let through while the
\* count is at most the ceiling of the route (10 auth, 120 agent, 30 ping)
\* and is answered 429 without next() once the count is above it; no other
\* key changes.
C13_TopePorVentana ==
  [][\A k \in ClavesRL :
       RateLimit(k[1], k[2])
         => LET registro == almacen[k]
                tope == IF k[2] = "/api/agente/auth" THEN 10
                        ELSE IF k[2] = "/api/agente/ping" THEN 30 ELSE 120
            IN  /\ \A j \in ClavesRL \ {k} : almacen'[j] = almacen[j]
                /\ IF registro.count = 0 \/ now - registro.windowStart > 60 * 1000
                     THEN /\ almacen'[k] = [count |-> 1, windowStart |-> now]
                          /\ salida'.op = "next"
                     ELSE /\ almacen'[k] = [count |-> registro.count + 1,
                                            windowStart |-> registro.windowStart]
                          /\ IF registro.count + 1 > tope
                               THEN salida'.op = "rateLimit" /\ salida'.status = 429
                               ELSE salida'.op = "next"]_vars

\* C13 witness: the 121st request of one window on a route of the agent
\* limiter has just been answered 429.
C13_Witness ==
  /\ salida.op = "rateLimit" /\ salida.status = 429
  /\ \E k \in ClavesRL :
       /\ k[2] \in RutasLimitadas
       /\ almacen[k].count = 121
       /\ now - almacen[k].windowStart <= 60 * 1000

\* C14: the cool-down check and record are one step: whenever a solicitarTest
\* or solicitarTestCoils passes the gate for a target, no request has passed
\* it for that target less than 60 s before, however the requests of the
\* handlers in flight interleave, and the pass is on record at once.
C14_GateIndivisible ==
  [][\A h \in HiloIds, esSuper \in BOOLEAN, a \in TodosIds, ip \in Ips,
        p \in Puertos :
       (SolicitarInicio(h, esSuper, a, ip, p) /\ hilos'[h].pc = "insertar")
         => /\ \/ permitidos[Clave(ip, p)] = 0
               \/ now - permitidos[Clave(ip, p)] >= 60 * 1000
            /\ cooldownTests'[Clave(ip, p)] = now
            /\ \A g \in HiloIds \ {h} :
                 (hilos[g].op = "solicitar" /\ hilos[g].ip = ip
                    /\ hilos[g].puerto = p)
                   => now - permitidos[Clave(ip, p)] >= 60 * 1000]_vars

\* C14 witness: while a request that passed the gate for a target is still
\* before its insert, a second request for the same target, made at the
\* same instant, has just been denied with a wait of 60 s.
C14_Witness ==
  \E h \in HiloIds :
    /\ hilos[h].op = "solicitar" /\ hilos[h].pc = "insertar"
    /\ permitidos[Clave(hilos[h].ip, hilos[h].puerto)] = now
    /\ \A k \in Claves \ {Clave(hilos[h].ip, hilos[h].puerto)} : permitidos[k] # now
    /\ salida.op = "solicitar" /\ salida.status = 429
    /\ salida.esperarSegundos = 60

\* C15: every session is pendiente, enviado, completado, error or timeout,
\* and its state moves only from pendiente to enviado or to a terminal state
\* and from enviado to a terminal state: a terminal state never changes
\* again, however the handlers interleave.
C15_SoloTransicionesLegales ==
  [][/\ \A t \in DOMAIN test_registrador' :
          test_registrador'[t].estado \in NoTerminales \cup Terminales
     /\ \A t \in DOMAIN test_registrador :
          LET antes == test_registrador[t].estado
              despues == test_registrador'[t].estado
          IN  antes # despues =>
                \/ antes = "pendiente" /\ despues \in {"enviado"} \cup Terminales
                \/ antes = "enviado" /\ despues \in Terminales]_vars

\* C16: every 503 of solicitarTest / solicitarTestCoils carries the id of a
\* stored session that is in state error with the fixed disconnect message.
C16_503LlevaSesion ==
  (salida.op = "solicitar" /\ salida.status = 503)
    => /\ salida.testId \in DOMAIN test_registrador
       /\ test_registrador[salida.testId].estado = "error"
       /\ test_registrador[salida.testId].error_mensaje = MSG_DESCONECTADO

\* C17: the step in which the close or error handler of an agent's event
\* stream runs leaves no registry entry for that agent id; an agent id
\* without an entry gets one only by conectarSSE, and until then
\* agenteConectado is false and solicitarTest / solicitarTestCoils for it
\* answer 503.
C17_CierreDesregistra ==
  [][/\ \A c \in DOMAIN canales, a \in AgenteIds :
          (canales[c].estado = "roto" /\ canales[c].agente = a
             /\ canales'[c] # canales[c])
            => /\ agentesConectados'[a] = 0
               /\ ~agenteConectado(a)'
     /\ \A a \in AgenteIds :
          (agentesConectados[a] = 0 /\ agentesConectados'[a] # 0)
            => /\ Len(canales') = Len(canales) + 1
               /\ canales'[Len(canales')].agente = a
               /\ agentesConectados'[a] = Len(canales')
     /\ \A h \in HiloIds, a \in AgenteIds, ip \in Ips, p \in Puertos :
          (SolicitarInicio(h, TRUE, a, ip, p) /\ agentesConectados[a] = 0)
            => /\ ~agenteConectado(a)
               /\ salida'.status = 503
               /\ hilos' = hilos]_vars

\* C17 witness: the stream of a1 has been closed and its entry is gone, a2
\* is connected, and a solicitarTest has just been answered 503 without a
\* session: it was for a1.
C17_Witness ==
  /\ Len(canales) = 2
  /\ canales[1] = CanalCerrado
  /\ canales[2].agente = "a2" /\ canales[2].estado = "abierto"
  /\ ~canales[2].writableEnded
  /\ agentesConectados["a1"] = 0 /\ agentesConectados["a2"] = 2
  /\ salida.op = "solicitar" /\ salida.status = 503 /\ salida.testId = 0

\* C18: the window of a key is fixed: its start changes only when a request
\* opens a new window (no entry, or more than 60 s after the start) or when
\* the sweep deletes an entry older than two windows; a request inside the
\* window, allowed or denied, leaves the start where it is; and a request
\* more than 60 s after the start is let through and leaves the key at
\* count = 1 with the start at now, whatever the count was.
C18_VentanaFija ==
  [][\A k \in ClavesRL :
       LET registro == almacen[k]
           vencida == now - registro.windowStart > 60 * 1000
       IN  /\ almacen'[k].windowStart # registro.windowStart
                => \/ /\ registro.count = 0 \/ vencida
                      /\ almacen'[k] = [count |-> 1, windowStart |-> now]
                      /\ salida'.op = "next"
                   \/ /\ now - registro.windowStart > 2 * 60 * 1000
                      /\ almacen'[k] = [count |-> 0, windowStart |-> 0]
           /\ (RateLimit(k[1], k[2]) /\ registro.count > 0 /\ ~vencida)
                => /\ almacen'[k].windowStart = registro.windowStart
                   /\ almacen'[k].count = registro.count + 1
           /\ (RateLimit(k[1], k[2]) /\ registro.count > 0 /\ vencida)
                => /\ almacen'[k] = [count |-> 1, windowStart |-> now]
                   /\ salida'.op = "next"]_vars

\* C18 witness: a key that ended its window over the ceiling, with requests
\* denied, has just been let through by its first request after the window
\* expired and is at count = 1 with the window starting now.
C18_Witness ==
  /\ salida.op = "next"
  /\ \E k \in ClavesRL :
       /\ trasRechazo[k]
       /\ almacen[k] = [count |-> 1, windowStart |-> now]
       /\ \A j \in ClavesRL \ {k} : almacen[j].windowStart # now

\* C19: the handler of a token-protected agent route starts only in the step
\* in which verificarTokenAgente has found the agent of the token active and
\* the limiter of the route has then counted the request and let it through.
C19_TokenLuegoLimite ==
  [][\A p \in PetIds :
       (peticiones'[p].pc = "handler" /\ peticiones[p].pc # "handler")
         => LET k == <<peticiones[p].ip, peticiones[p].ruta>> IN
            /\ peticiones[p].pc = "buscar"
            /\ agenteActivo(peticiones[p].agenteId)
            /\ k \in ClavesRL
            /\ almacen'[k] # almacen[k]
            /\ almacen'[k].count <= 120]_vars

\* C20: the stored sessions change only in a step of solicitarTest,
\* consultarTest or reportarResultadoTest: a step that changes a channel or
\* the clock leaves every session as it is; and a poll that finds a session
\* enviado more than 30 s after its creation goes on to store timeout.
C20_SoloLosTresHandlers ==
  [][/\ (canales' # canales \/ now' # now)
          => test_registrador' = test_registrador
     /\ test_registrador' # test_registrador
          => \E h \in HiloIds :
               /\ hilos[h].op \in {"solicitar", "consultar", "reportar"}
               /\ hilos'[h] # hilos[h]
     /\ \A h \in HiloIds, a \in AgenteIds, t \in DOMAIN test_registrador :
          (/\ ConsultarTest(h, TRUE, a, t)
           /\ test_registrador[t].agente_id = a
           /\ test_registrador[t].estado = "enviado"
           /\ now - test_registrador[t].created_at > 30 * 1000)
            => /\ hilos'[h].op = "consultar" /\ hilos'[h].pc = "marcar"
               /\ hilos'[h].testId = t
     /\ \A h \in HiloIds :
          (hilos[h].op = "consultar" /\ hilos[h].pc = "marcar"
             /\ hilos'[h] # hilos[h])
            => /\ test_registrador'[hilos[h].testId].estado = "timeout"
               /\ salida'.estado = "timeout"]_vars

\* C20 witness: the only stream of a1 has been closed, a session dispatched
\* on it is still enviado more than 30 s after its creation, and a poll has
\* read it and is about to store timeout.
C20_Witness ==
  /\ Len(canales) = 1 /\ canales[1] = CanalCerrado
  /\ agentesConectados["a1"] = 0
  /\ \E h \in HiloIds :
       /\ hilos[h].op = "consultar" /\ hilos[h].pc = "marcar"
       /\ test_registrador[hilos[h].testId].estado = "enviado"
       /\ test_registrador[hilos[h].testId].agente_id = "a1"
       /\ now - test_registrador[hilos[h].testId].created_at > 30 * 1000

\* C21: an accepted reportarResultadoTest stores completado with the
\* reported values and no error message when exito is true, error with the
\* reported message and no values when it is false, and completado_at in
\* both cases; from then on the stored state and payload stay as reported,
\* and consultarTest of the session answers with exactly them.
C21_ResultadoGuardado ==
  [][/\ \A h \in HiloIds :
          ReportarGuardar(h, FALSE)
            => LET fila == test_registrador'[hilos[h].testId] IN
               /\ fila.completado_at # 0
               /\ IF hilos[h].exito
                    THEN /\ fila.estado = "completado"
                         /\ fila.valores = hilos[h].valores
                         /\ fila.valores \in ValoresPosibles
                         /\ fila.error_mensaje = NULL
                    ELSE /\ fila.estado = "error"
                         /\ fila.error_mensaje = hilos[h].error_mensaje
                         /\ fila.error_mensaje \in ErroresPosibles
                         /\ fila.valores = NULL
     /\ \A t \in DOMAIN test_registrador :
          LET fila == test_registrador[t]
              informado == \/ fila.estado = "completado"
                           \/ /\ fila.estado = "error"
                              /\ fila.error_mensaje \in ErroresPosibles
          IN  informado
                => /\ test_registrador'[t].estado = fila.estado
                   /\ test_registrador'[t].valores = fila.valores
                   /\ test_registrador'[t].error_mensaje = fila.error_mensaje
                   /\ \A h \in HiloIds :
                        ConsultarTest(h, TRUE, fila.agente_id, t)
                          => /\ salida'.status = 200
                             /\ salida'.estado = fila.estado
                             /\ salida'.valores = fila.valores
                             /\ salida'.error_mensaje = fila.error_mensaje]_vars

\* C22: the gate is keyed by the target alone: whether a request through a
\* connected agent is denied depends only on the entry of its (ip, puerto),
\* whichever agent the earlier request went through; a request that passes
\* makes the check for its target deny at once; and it leaves the outcome
\* of the check for every other target as it was.
C22_ClavePorObjetivo ==
  [][\A h \in HiloIds, a \in AgenteIds, ip \in Ips, p \in Puertos :
       (SolicitarInicio(h, TRUE, a, ip, p) /\ agenteConectado(a))
         => LET ultimo == cooldownTests[Clave(ip, p)] IN
            /\ (salida'.status = 429) <=> (ultimo # 0 /\ now - ultimo < 60 * 1000)
            /\ salida'.status # 429 => ~(verificarCooldown(ip, p).permitido)'
            /\ \A k \in Claves \ {Clave(ip, p)} :
                 verificarCooldown(k[1], k[2])' = verificarCooldown(k[1], k[2])]_vars

\* C22 witness: a request through a1 has just passed the gate for a target
\* and is still in flight, and a request through a2 for the same target,
\* made at the same instant, has been denied with a wait of 60 s.
C22_Witness ==
  /\ salida.op = "solicitar" /\ salida.status = 429
  /\ salida.agenteId = "a2" /\ salida.esperarSegundos = 60
  /\ \E h \in HiloIds :
       /\ hilos[h].op = "solicitar" /\ hilos[h].agenteId = "a1"
       /\ cooldownTests[Clave(hilos[h].ip, hilos[h].puerto)] = now
       /\ \A k \in Claves \ {Clave(hilos[h].ip, hilos[h].puerto)} :
            cooldownTests[k] # now
       /\ \A g \in HiloIds \ {h} : hilos[g].op = "idle"

\* C23: when the insert of the pendiente row fails, the request ends with
\* 500, no row is stored, nothing is pushed to the agent and the handler is
\* over; the cool-down entry of the target stays, and all an entry does is
\* make requests for that target wait, 60 s at most: once it is 60 s old
\* the gate passes the next request for the target.
C23_FalloAlInsertar ==
  [][/\ \A h \in HiloIds :
          (hilos[h].op = "solicitar" /\ hilos[h].pc = "insertar"
             /\ hilos'[h] # hilos[h] /\ test_registrador' = test_registrador)
            => /\ salida'.op = "solicitar" /\ salida'.status = 500
               /\ salida'.testId = 0
               /\ hilos'[h] = HiloLibre
               /\ revelados' = revelados
               /\ canales' = canales /\ agentesConectados' = agentesConectados
               /\ cooldownTests' = cooldownTests
     /\ \A h \in HiloIds, a \in AgenteIds, ip \in Ips, p \in Puertos :
          (SolicitarInicio(h, TRUE, a, ip, p) /\ agenteConectado(a))
            => IF \/ cooldownTests[Clave(ip, p)] = 0
                  \/ now - cooldownTests[Clave(ip, p)] >= 60 * 1000
                 THEN hilos'[h].pc = "insertar"
                 ELSE /\ salida'.status = 429
                      /\ salida'.esperarSegundos \in 1 .. 60
                      /\ UNCHANGED <<hilos, cooldownTests, test_registrador>>]_vars

\* C23 witness: no session is stored and no request is in flight, yet a
\* request has just been denied by the gate: the entry it met was recorded
\* by a request whose insert failed.
C23_Witness ==
  /\ test_registrador = <<>>
  /\ \A h \in HiloIds : hilos[h] = HiloLibre
  /\ revelados = {}
  /\ salida.op = "solicitar" /\ salida.status = 429
  /\ salida.esperarSegundos \in 1 .. 60

\* C24: on every connection that stays open from some point on, whether or
\* not the registry still names it, heartbeat events are written again and
\* again.
C24_LatidoEnCadaCanal ==
  \A c \in 1 .. MaxCanales :
    <>[](/\ c \in DOMAIN canales
         /\ canales[c].estado = "abierto"
         /\ ~canales[c].writableEnded)
      => /\ []<>(c \in DOMAIN canales /\ canales[c].latidos = 1)
         /\ []<>(c \in DOMAIN canales /\ canales[c].latidos = 0)

\* C24 witness: a heartbeat has been written on an open connection that a
\* newer connection of the same agent has replaced in the registry.
C24_Witness ==
  /\ Len(canales) = 2
  /\ canales[1].agente = "a1" /\ canales[2].agente = "a1"
  /\ canales[1].estado = "abierto" /\ ~canales[1].writableEnded
  /\ agentesConectados["a1"] = 2
  /\ canales[1].latidos = 1

\* C25: authentication by secret looks at the agents that are active when it
\* reads the table, and at no others: the agent it
\* returns is active and has the secret as its current secret or as its
\* previous secret rotated less than 24 h ago (no two agents ever match one
\* secret, so the first match is the only one); when no active agent
\* matches, the answer is a failure and no token is issued, the current
\* secret of an inactive agent included.
C25_SoloActivosPorSecreto ==
  [][\A c \in ClavesEmitidas :
       (Autenticar(c) \/ VerificarClaveAgente(c))
         => LET coinciden ==
                  {a \in AgenteIds :
                     /\ agentes[a].existe /\ agentes[a].activo
                     /\ \/ agentes[a].clave_hash = 1000 + c
                        \/ /\ agentes[a].clave_anterior_hash = 1000 + c
                           /\ agentes[a].clave_rotada_at # 0
                           /\ now - agentes[a].clave_rotada_at < 24 * 60 * 60 * 1000}
            IN  /\ Cardinality(coinciden) <= 1
                /\ IF coinciden = {}
                     THEN /\ salida'.status = 401
                          /\ salida'.token = SinToken
                          /\ tokens' = tokens
                     ELSE /\ salida'.status = 200
                          /\ salida'.agenteId \in coinciden
                          /\ salida'.op = "autenticar"
                               => /\ salida'.token.agenteId = salida'.agenteId
                                  /\ tokens' \subseteq tokens \cup {salida'.token}]_vars

\* C25 witness: no key has been rotated, so every issued secret is the
\* current secret of its agent; an agent is inactive and an authentication
\* has just failed: the secret presented was the inactive agent's own.
C25_Witness ==
  /\ salida.op = "autenticar" /\ salida.status = 401
  /\ siguienteClave = PrimeraClaveNueva
  /\ \A a \in AgenteIds : agentes[a].existe /\ agentes[a].clave_anterior_hash = 0
  /\ \E a \in AgenteIds : ~agentes[a].activo

\* C26: as long as the connection an agent opened last is open, the
\* registry maps the agent id to it and agenteConectado is true, whatever
\* happens to the connections it replaced.
C26_CierreViejoInocuo ==
  \A a \in AgenteIds, c \in DOMAIN canales :
    (/\ canales[c].agente = a
     /\ canales[c].estado = "abierto"
     /\ ~canales[c].writableEnded
     /\ \A d \in DOMAIN canales : d > c => canales[d].agente \notin {a, NULL})
      => /\ agentesConectados[a] = c
         /\ agenteConectado(a)

\* C27: a result reported while the enviado update of solicitarTest is still
\* pending is kept: the step in which that update lands leaves a session
\* that already holds a reported result in completado or error with its
\* payload.
C27_ResultadoAntesDeEnviado ==
  [][\A h \in HiloIds :
       (/\ hilos[h].op = "solicitar" /\ hilos[h].pc = "actualizar"
        /\ hilos'[h] # hilos[h]
        /\ test_registrador[hilos[h].testId].estado \in {"completado", "error"})
         => LET antes == test_registrador[hilos[h].testId]
                despues == test_registrador'[hilos[h].testId]
            IN  /\ despues.estado = antes.estado
                /\ despues.valores = antes.valores
                /\ despues.error_mensaje = antes.error_mensaje]_vars

\* C28: the sweep deletes only entries whose window started more than 120 s
\* ago, and every request is answered exactly as the limiter answers it on
\* the map that the same requests leave when no sweep ever runs: let
\* through or denied alike, with the same retryAfter.
C28_BarridoInocuo ==
  [][/\ \A k \in ClavesRL :
          (almacen'[k] = [count |-> 0, windowStart |-> 0]
             /\ almacen[k] # almacen'[k])
            => now - almacen[k].windowStart > 2 * 60 * 1000
     /\ \A k \in ClavesRL :
          RateLimit(k[1], k[2])
            => LET otro == limitar(sinBarrido, maxRequests(k[2]), k) IN
               /\ (salida'.op = "next") <=> otro.pasa
               /\ (salida'.status = 429) <=> ~otro.pasa
               /\ salida'.esperarSegundos = otro.segundosRestantes
               /\ almacen'[k] = sinBarrido'[k]]_vars

\* C28 witness: a key whose entry the sweep had deleted has just made a
\* request, and the request was let through as the first of a new window.
C28_Witness ==
  /\ salida.op = "next"
  /\ \E k \in ClavesRL :
       /\ trasBarrido[k]
       /\ almacen[k] = [count |-> 1, windowStart |-> now]
       /\ sinBarrido[k] = almacen[k]

\* C29: every 429 of the rate limiter carries a retryAfter of at least 1 and
\* at most 60 seconds.
C29_RetryAfterEntre1y60 ==
  (salida.op = "rateLimit" /\ salida.status = 429)
    => salida.esperarSegundos \in 1 .. 60

\* C30: the promise of every enviarTestConexion is resolved once: by the
\* first response that carries its requestId or by its timer, whichever
\* comes first.  The entry of pendingCallbacks is there exactly while the
\* promise is pending, a response after that finds no entry and changes
\* nothing, and every entry is removed in the end.
C30_ResueltaUnaVez ==
  /\ [](\A r \in RequestIds :
          /\ promesas[r].resoluciones <= 1
          /\ r \in pendingCallbacks <=> promesas[r].estado = "pendiente"
          /\ r \in pendingCallbacks => timeouts[r] = "armado"
          /\ promesas[r].estado = "resuelta"
               => /\ promesas[r].resoluciones = 1
                  /\ \/ /\ timeouts[r] = "disparado"
                        /\ promesas[r].resultado = "Timeout: el agente no respondió"
                     \/ /\ timeouts[r] = "cancelado"
                        /\ promesas[r].resultado \in {"exito", "fallo"}
                        /\ respuestas[r] >= 1)
  /\ [][\A r \in RequestIds :
          promesas[r].estado = "resuelta"
            => /\ promesas'[r] = promesas[r]
               /\ timeouts'[r] = timeouts[r]
               /\ r \notin pendingCallbacks']_vars
  /\ \A r \in RequestIds :
       (r \in pendingCallbacks) ~> (r \notin pendingCallbacks)

\* C30 witness: one request was resolved by its timer and a response for it
\* arrived afterwards; another was resolved by the first of two responses.
C30_Witness ==
  \E r, q \in RequestIds :
    /\ timeouts[r] = "disparado" /\ respuestas[r] >= 1
    /\ promesas[r].resoluciones = 1
    /\ timeouts[q] = "cancelado" /\ respuestas[q] = 2
    /\ promesas[q].resoluciones = 1
    /\ pendingCallbacks = {}

====
